---- MODULE Spec2Model ----
(***************************************************************************)
(* toMCP worker: the dual-tier rate limiter (isRateLimited), the routes of  *)
(* the fetch handler, the two model invocation paths (chatWithAI,          *)
(* chatWithUserApiKey), the model catalog (fetchCloudflareModels) and the  *)
(* credential validation (validateApiKey), as state machines.              *)
(*                                                                         *)
(* Time is the value of Date.now() in milliseconds.  A synchronous stretch *)
(* of code between two awaits is one action: the worker runs one isolate   *)
(* on a single-threaded event loop.                                        *)
(***************************************************************************)
EXTENDS Integers, Sequences, FiniteSets, TLC

VARIABLES
    now,            \* Date.now()
    globalCounter,  \* let globalCounter = { count, resetTime }
    rateLimitMap,   \* const rateLimitMap = new Map<string, {count, resetTime}>()
    ret,            \* the value returned by the latest isRateLimited call
    ord,            \* history: per ip, position of its latest per-IP test in the record's window
    req,            \* per request slot: where the chat route is suspended and its locals
    inv,            \* per request slot: the same for the other routes of the handler
    modelsCache,    \* let modelsCache: { models, timestamp } | null
    envelope,       \* a chat history and the messages the two chat functions build of it
    page            \* a page and what fetchWebsiteContent and htmlToMarkdown make of it

vars == <<now, globalCounter, rateLimitMap, ret, ord, req, inv, modelsCache, envelope, page>>

\* what the rate limiter and the chat route leave alone
gatewayVars == <<inv, modelsCache, envelope, page>>
\* what the other routes leave alone
chatVars == <<globalCounter, rateLimitMap, ret, ord, req>>

----------------------------------------------------------------------------
(* RATE_LIMIT *)

maxPerIP == 5
maxGlobal == 200
windowMs == 24 * 60 * 60 * 1000

(* Bounds of the model *)

\* the clock runs over MaxWindows + 1 consecutive 24h windows
MaxWindows == 2
\* the global counter starts at 0 or within GlobalHeadroom of maxGlobal
GlobalHeadroom == 1
\* ord saturates OrdSlack above maxPerIP
OrdSlack == 2

\* the client IPs that are followed
Keys == {"ip1", "ip2"}
\* offsets, within a window, of the instants the clock can show
Offsets == {0, 1, 1500}
Instants == {w * windowMs + o : w \in 0..MaxWindows, o \in Offsets}
\* requests of IPs outside Keys already counted in the running global window
GlobalStart == {0} \cup {c \in 0..maxGlobal : c >= maxGlobal - GlobalHeadroom}

Min(a, b) == IF a < b THEN a ELSE b

----------------------------------------------------------------------------
(* isRateLimited *)

NoReason == "none"
DailyLimitReason == "Daily limit reached. Try again tomorrow!"

\* mutant: the window is over at resetTime itself
windowExpired_inclusive(resetTime, t) == resetTime <= t

\* `resetTime < now`
windowExpired(resetTime, t) == resetTime < t

\* mutant: the new window is counted from the end of the old one
resetGlobal_drift(g, t) ==
    IF windowExpired(g.resetTime, t)
    THEN [count |-> 0, resetTime |-> g.resetTime + windowMs]
    ELSE g

\* lines 32-35: reset global counter if window expired
resetGlobal(g, t) ==
    IF windowExpired(g.resetTime, t)
    THEN [count |-> 0, resetTime |-> t + windowMs]
    ELSE g

\* mutant: off by one, the limit itself is let through
globalLimitReached_gt(g) == g.count > maxGlobal

\* line 38
globalLimitReached(g) == g.count >= maxGlobal

\* mutant: a record is deleted at its resetTime already
cleanUp_early(m, t) ==
    LET keep == {k \in DOMAIN m : m[k].resetTime > t}
    IN  [k \in keep |-> m[k]]

\* lines 48-52: the sweep, taken when Math.random() < 0.01
cleanUp(m, t) ==
    LET keep == {k \in DOMAIN m : ~windowExpired(m[k].resetTime, t)}
    IN  [k \in keep |-> m[k]]

\* mutant: an expired record is kept
needsNewWindow_absentOnly(m, ip, t) == ip \notin DOMAIN m

\* line 56: `!record || record.resetTime < now`
needsNewWindow(m, ip, t) ==
    \/ ip \notin DOMAIN m
    \/ windowExpired(m[ip].resetTime, t)

\* line 58: the record a new window starts with
newRecord(t) == [count |-> 1, resetTime |-> t + windowMs]

\* mutant: off by one, the limit itself is let through
ipLimitReached_gt(record) == record.count > maxPerIP

\* line 63
ipLimitReached(record) == record.count >= maxPerIP

\* rateLimitMap.set(ip, rec)
MapSet(m, ip, rec) == [k \in DOMAIN m \cup {ip} |-> IF k = ip THEN rec ELSE m[k]]

\* mutant: remaining is worked out before record.count++
perIPStage_remainingBefore(ip, g1, m, t, sweep) ==
    LET m1 == IF sweep THEN cleanUp(m, t) ELSE m IN
    IF needsNewWindow(m1, ip, t)
    THEN [g |-> [g1 EXCEPT !.count = @ + 1],
          m |-> MapSet(m1, ip, newRecord(t)),
          res |-> [limited |-> FALSE, remaining |-> maxPerIP - 1,
                   resetIn |-> windowMs, reason |-> NoReason]]
    ELSE IF ipLimitReached(m1[ip])
    THEN [g |-> g1, m |-> m1,
          res |-> [limited |-> TRUE, remaining |-> 0,
                   resetIn |-> m1[ip].resetTime - t, reason |-> NoReason]]
    ELSE [g |-> [g1 EXCEPT !.count = @ + 1],
          m |-> [m1 EXCEPT ![ip].count = @ + 1],
          res |-> [limited |-> FALSE, remaining |-> maxPerIP - m1[ip].count,
                   resetIn |-> m1[ip].resetTime - t, reason |-> NoReason]]

\* lines 47-69, reached when the global limit lets the call through: g1 is the
\* global counter after line 35, `sweep` the outcome of the Math.random() test
perIPStage(ip, g1, m, t, sweep) ==
    LET m1 == IF sweep THEN cleanUp(m, t) ELSE m IN
    IF needsNewWindow(m1, ip, t)
    THEN [g |-> [g1 EXCEPT !.count = @ + 1],
          m |-> MapSet(m1, ip, newRecord(t)),
          res |-> [limited |-> FALSE, remaining |-> maxPerIP - 1,
                   resetIn |-> windowMs, reason |-> NoReason]]
    ELSE IF ipLimitReached(m1[ip])
    THEN [g |-> g1, m |-> m1,
          res |-> [limited |-> TRUE, remaining |-> 0,
                   resetIn |-> m1[ip].resetTime - t, reason |-> NoReason]]
    ELSE [g |-> [g1 EXCEPT !.count = @ + 1],
          m |-> [m1 EXCEPT ![ip].count = @ + 1],
          res |-> [limited |-> FALSE, remaining |-> maxPerIP - (m1[ip].count + 1),
                   resetIn |-> m1[ip].resetTime - t, reason |-> NoReason]]

\* mutant: the denied call is counted
dailyLimitResult_counted(g1, m, t) ==
    [g |-> [g1 EXCEPT !.count = @ + 1], m |-> m,
     res |-> [limited |-> TRUE, remaining |-> 0,
              resetIn |-> g1.resetTime - t, reason |-> DailyLimitReason]]

\* lines 37-45: the result when the global limit is reached
dailyLimitResult(g1, m, t) ==
    [g |-> g1, m |-> m,
     res |-> [limited |-> TRUE, remaining |-> 0,
              resetIn |-> g1.resetTime - t, reason |-> DailyLimitReason]]

\* mutant: a new window for the IP is opened before the global limit is looked at
isRateLimited_ipFirst(ip, g, m, t, sweep) ==
    LET g1 == resetGlobal(g, t) IN
    IF globalLimitReached(g1) /\ ~needsNewWindow(m, ip, t)
    THEN dailyLimitResult(g1, m, t)
    ELSE perIPStage(ip, g1, m, t, sweep)

\* The whole call, for the clock value t and the outcome `sweep` of the
\* Math.random() test: the new globalCounter, the new rateLimitMap, the result.
isRateLimited(ip, g, m, t, sweep) ==
    LET g1 == resetGlobal(g, t) IN
    IF globalLimitReached(g1)
    THEN dailyLimitResult(g1, m, t)
    ELSE perIPStage(ip, g1, m, t, sweep)

\* history: the position of a chat request's call among the chat requests' calls
\* for ip that reached the per-IP test (line 54) since ip's record was last set
OrdAfter(ip, g, m, t) ==
    IF (IF g.resetTime < t THEN 0 ELSE g.count) >= maxGlobal THEN ord[ip]
    ELSE IF ip \notin DOMAIN m \/ m[ip].resetTime < t THEN 1
    ELSE Min(ord[ip] + 1, maxPerIP + OrdSlack)

\* mutant: the counts the call has worked out are not stored
CallIsRateLimited_lostUpdate(ip, sweep, who) ==
    LET out == isRateLimited(ip, globalCounter, rateLimitMap, now, sweep) IN
    /\ UNCHANGED <<globalCounter, rateLimitMap>>
    /\ ret' = out.res @@
              [ip |-> ip, who |-> who, seq |-> 1 - ret.seq,
               prevCount |-> IF ip \in DOMAIN rateLimitMap THEN rateLimitMap[ip].count ELSE 0,
               prevExpired |-> ip \in DOMAIN rateLimitMap /\ rateLimitMap[ip].resetTime < now,
               \* history: the IPs whose records the call has deleted
               swept |-> DOMAIN rateLimitMap \ DOMAIN out.m]

\* what a call leaves in the shared state; `who` is the caller
CallIsRateLimited(ip, sweep, who) ==
    LET out == isRateLimited(ip, globalCounter, rateLimitMap, now, sweep) IN
    /\ globalCounter' = out.g
    /\ rateLimitMap' = out.m
    /\ ret' = out.res @@
              [ip |-> ip, who |-> who, seq |-> 1 - ret.seq,
               \* history: ip's record as the call found it
               prevCount |-> IF ip \in DOMAIN rateLimitMap THEN rateLimitMap[ip].count ELSE 0,
               prevExpired |-> ip \in DOMAIN rateLimitMap /\ rateLimitMap[ip].resetTime < now,
               \* history: the IPs whose records the call has deleted
               swept |-> DOMAIN rateLimitMap \ DOMAIN out.m]

----------------------------------------------------------------------------
(* Requests *)

Reqs == {"r1", "r2"}

MAX_RETRIES == 3
\* line 470: `apiKey.length > 20`
MinKeyLength == 20

\* apiKey.length of the body, 0 for no apiKey or an empty one
KeyLengths == {0, MinKeyLength, MinKeyLength + 1}
\* url and message of the body: both strings, one missing or empty, url not a string
FieldShapes == {"ok", "missing", "notString"}
\* what fetch(fullUrl) and response.text() come to in fetchWebsiteContent
PageOutcomes == {"ok", "okErrorText", "status", "throw"}
\* what ai.run comes to: a response with text, one without, a rejection
RunOutcomes == {"text", "empty", "throw"}
\* what the REST call of chatWithUserApiKey comes to: fetch rejects, a status that
\* is not ok (without and with errors[0].message in the body), an ok body that
\* does not parse, success false (without and with errors[0].message), success true
CredOutcomes == {"throw", "401", "403", "429", "500", "500errors", "badJson",
                 "successFalse", "successFalseErrors", "text", "empty"}

\* `cors`: the headers hold corsHeaders; `json`: made by Response.json
NoResponse == [status |-> 0, errorType |-> "none", error |-> <<"", "none">>,
               retryAfter |-> -1, response |-> "none", usedApiKey |-> FALSE,
               cors |-> FALSE, json |-> FALSE]

Idle == [pc |-> "idle", ip |-> "none", parsed |-> FALSE, usable |-> FALSE,
         hasValidApiKey |-> FALSE, checks |-> 0, pageFetches |-> 0,
         credRuns |-> 0, aiRuns |-> 0, attempt |-> 0, lastError |-> "none",
         wakeAt |-> 0, fields |-> "none", page |-> "none", backend |-> "none",
         \* websiteContent as handed to chatWithAI or chatWithUserApiKey
         prompt |-> << >>,
         \* history: what the rate limit check of the request came to
         quota |-> "none",
         resp |-> NoResponse]

\* Response.json(body, {status, headers})
Done(q, resp) == [q EXCEPT !.pc = "done", !.resp = resp]

\* mutant: the body has no errorType member
ErrorResponse_untyped(status, errorType, fixed, message) ==
    [NoResponse EXCEPT !.status = status,
                       !.error = <<fixed, message>>, !.cors = TRUE, !.json = TRUE]

\* the error text is a fixed part followed by the message of what was caught
ErrorResponse(status, errorType, fixed, message) ==
    [NoResponse EXCEPT !.status = status, !.errorType = errorType,
                       !.error = <<fixed, message>>, !.cors = TRUE, !.json = TRUE]

\* mutant: the key alone is taken for a credential
hasValidApiKey_keyOnly(keyLength, hasAccountId) ==
    keyLength # 0 /\ keyLength > MinKeyLength

\* line 470
hasValidApiKey(keyLength, hasAccountId) ==
    keyLength # 0 /\ keyLength > MinKeyLength /\ hasAccountId

\* mutant: rounded down
retryAfterSeconds_floor(resetIn) == resetIn \div 1000

\* Math.ceil(resetIn / 1000), resetIn >= 0
retryAfterSeconds(resetIn) == (resetIn + 999) \div 1000

\* lines 477-493
rateLimitResponse(rateLimit) ==
    [ErrorResponse(429, "RATE_LIMIT",
        "Rate limit exceeded. Add a Cloudflare API key to use your own quota and bypass limits.",
        "")
     EXCEPT !.retryAfter = retryAfterSeconds(rateLimit.resetIn)]

\* lines 496-507: the body's fields, up to the await of fetchWebsiteContent
afterQuota(q0, fields) ==
    LET q == [q0 EXCEPT !.fields = fields] IN
    IF fields = "missing"
    THEN Done(q, ErrorResponse(400, "VALIDATION",
                     "Missing required fields: url and message", ""))
    ELSE IF fields = "notString"
    \* websiteUrl.startsWith is not a function: the outer catch, lines 569-574
    THEN Done(q, ErrorResponse(500, "UNKNOWN", "", "TypeError"))
    ELSE [q EXCEPT !.pc = "page", !.pageFetches = @ + 1]

\* no response of another route yet.  `kind` tells the constructor and body that
\* made it, `error` and `errorType` the members of that name of a JSON body
\* ("none" when the body has no such member)
NoReply == [status |-> 0, cors |-> FALSE, json |-> FALSE, kind |-> "none",
            error |-> "none", errorType |-> "none", valid |-> "none",
            accountId |-> "none", models |-> << >>, id |-> "none", code |-> 0,
            text |-> [head |-> "none", length |-> 0]]
\* no invocation of another route in the slot.  `calls` lists the outbound
\* fetches of the invocation in the order they were issued
NoInvocation == [pc |-> "idle", route |-> "none", host |-> "none", method |-> "none",
                 path |-> "none", calls |-> << >>, settled |-> << >>, outcome |-> "none",
                 bodyShape |-> "none", apiKeyLength |-> -1, userAccountId |-> "none",
                 id |-> "none", rpcMethod |-> "none", toolName |-> "none",
                 targetUrl |-> << >>, pagePath |-> [type |-> "none", chars |-> << >>],
                 fullUrl |-> << >>, pageLength |-> 0,
                 resp |-> NoReply]
\* modelsCache = null
NoCache == [filled |-> FALSE, models |-> << >>, timestamp |-> 0]
\* no chat function at work: the arguments of chatWithAI and chatWithUserApiKey
\* and the messages each has built of them (<< >>: not built)
NoEnvelope == [websiteUrl |-> "none", websiteContent |-> "none", userMessage |-> "none",
               chatHistory |-> << >>, managed |-> << >>, credential |-> << >>]

\* no page at hand.  `upstream` is what fetch(url) and response.text() come to
\* and `length` the length of the page's markdown; `raised`, `content` and
\* `contentLength` are what fetchWebsiteContent has come to.  `html` is a page
\* as its pieces, `once` and `twice` what htmlToMarkdown has made of it and of
\* its own output
NoPage == [upstream |-> [kind |-> "none", status |-> 0], length |-> 0,
           returned |-> FALSE, raised |-> FALSE, content |-> << >>, contentLength |-> 0,
           html |-> << >>, converted |-> 0, once |-> << >>, twice |-> << >>]

\* the module is loaded: no request yet
InitService ==
    /\ now = 0
    /\ \E c \in GlobalStart : globalCounter = [count |-> c, resetTime |-> now + windowMs]
    /\ rateLimitMap = << >>
    /\ ret = [limited |-> FALSE, remaining |-> 0, resetIn |-> 0, reason |-> NoReason,
              ip |-> "none", who |-> "none", seq |-> 0,
              prevCount |-> 0, prevExpired |-> FALSE, swept |-> {}]
    /\ ord = [k \in Keys |-> 0]
    /\ req = [r \in Reqs |-> Idle]
    /\ inv = [r \in Reqs |-> NoInvocation]
    /\ modelsCache = NoCache

Init ==
    /\ InitService
    /\ envelope = NoEnvelope
    /\ page = NoPage

\* the clock moves on
Tick(t) ==
    /\ t > now
    /\ now' = t
    /\ UNCHANGED <<globalCounter, rateLimitMap, ret, ord, req>>
    /\ UNCHANGED gatewayVars

\* isRateLimited(ip) called on its own
Check(ip, sweep) ==
    /\ CallIsRateLimited(ip, sweep, "direct")
    /\ UNCHANGED <<now, ord, req>>
    /\ UNCHANGED gatewayVars

NextQuota ==
    \/ \E t \in Instants : Tick(t)
    \/ \E ip \in Keys, sweep \in BOOLEAN : Check(ip, sweep)

SpecQuota == Init /\ [][NextQuota]_vars

----------------------------------------------------------------------------
(* The chat route, POST /chat *)

\* the handler runs up to `await request.json()`, line 460
Arrive(r) ==
    /\ req[r].pc = "idle"
    /\ req' = [req EXCEPT ![r].pc = "body"]
    /\ UNCHANGED <<now, globalCounter, rateLimitMap, ret, ord>>
    /\ UNCHANGED gatewayVars

\* lines 460-574: request.json() rejects, the outer catch answers
BodyRejected(r) ==
    /\ req[r].pc = "body"
    /\ req' = [req EXCEPT ![r] = Done(@, ErrorResponse(500, "UNKNOWN", "", "SyntaxError"))]
    /\ UNCHANGED <<now, globalCounter, rateLimitMap, ret, ord>>
    /\ UNCHANGED gatewayVars

\* lines 460-507: the body is read, the request carries its own key
BodyWithKey(r, keyLength, hasAccountId, fields) ==
    /\ req[r].pc = "body"
    /\ hasValidApiKey(keyLength, hasAccountId)
    /\ req' = [req EXCEPT ![r] =
                 afterQuota([@ EXCEPT !.parsed = TRUE, !.hasValidApiKey = TRUE,
                                      !.usable = keyLength > MinKeyLength /\ hasAccountId],
                            fields)]
    /\ UNCHANGED <<now, globalCounter, rateLimitMap, ret, ord>>
    /\ UNCHANGED gatewayVars

\* mutant: the fields are looked at before the rate limit
BodyWithoutKey_fieldsFirst(r, keyLength, hasAccountId, fields, ip, sweep) ==
    /\ req[r].pc = "body"
    /\ ~hasValidApiKey(keyLength, hasAccountId)
    /\ LET q == [req[r] EXCEPT !.parsed = TRUE, !.ip = ip, !.checks = @ + 1,
                               !.usable = keyLength > MinKeyLength /\ hasAccountId]
           rateLimit == isRateLimited(ip, globalCounter, rateLimitMap, now, sweep).res
       IN  IF fields # "ok"
           THEN /\ req' = [req EXCEPT ![r] = afterQuota(q, fields)]
                /\ ret' = [ret EXCEPT !.who = r, !.seq = 1 - @, !.limited = FALSE]
                /\ UNCHANGED <<globalCounter, rateLimitMap, ord>>
           ELSE /\ CallIsRateLimited(ip, sweep, r)
                /\ ord' = [ord EXCEPT ![ip] = OrdAfter(ip, globalCounter, rateLimitMap, now)]
                /\ req' = [req EXCEPT ![r] =
                             IF rateLimit.limited
                             THEN Done(q, rateLimitResponse(rateLimit))
                             ELSE afterQuota(q, fields)]
    /\ UNCHANGED now
    /\ UNCHANGED gatewayVars

\* lines 460-507: the body is read, the request goes through the rate limit
BodyWithoutKey(r, keyLength, hasAccountId, fields, ip, sweep) ==
    /\ req[r].pc = "body"
    /\ ~hasValidApiKey(keyLength, hasAccountId)
    /\ CallIsRateLimited(ip, sweep, r)
    /\ ord' = [ord EXCEPT ![ip] = OrdAfter(ip, globalCounter, rateLimitMap, now)]
    /\ LET rateLimit == isRateLimited(ip, globalCounter, rateLimitMap, now, sweep).res
           q == [req[r] EXCEPT !.parsed = TRUE, !.ip = ip, !.checks = @ + 1,
                               !.usable = keyLength > MinKeyLength /\ hasAccountId,
                               !.quota = IF rateLimit.limited THEN "denied"
                                                              ELSE "allowed"]
       IN  req' = [req EXCEPT ![r] =
                     IF rateLimit.limited
                     THEN Done(q, rateLimitResponse(rateLimit))
                     ELSE afterQuota(q, fields)]
    /\ UNCHANGED now
    /\ UNCHANGED gatewayVars

\* lines 118-133: the text fetchWebsiteContent returns, as its leading piece
\* followed by the rest
fetchWebsiteContent(outcome) ==
    CASE outcome = "status"      -> <<"Error:", " Could not fetch ", "url", " (status)">>
      [] outcome = "throw"       -> <<"Error fetching", " ", "url", ": message">>
      [] outcome = "okErrorText" -> <<"Error:", " page not found">>
      [] OTHER                   -> <<"# Title", "Hello **world**">>

\* mutant: only the 'Error:' marker is looked for
fetchFailed_colonOnly(content) == content[1] = "Error:"

\* line 510: content.startsWith('Error:') || content.startsWith('Error fetching')
fetchFailed(content) == content[1] = "Error:" \/ content[1] = "Error fetching"

\* what the k-th call of the backend answers or fails with
ReplyOf(k) == <<"reply 1", "reply 2", "reply 3", "reply 4">>[k]
ErrorOf(k) == <<"error 1", "error 2", "error 3", "error 4">>[k]
NoResponseGenerated == "No response generated"

\* lines 565-568
chatResponse(q, text) ==
    Done(q, [NoResponse EXCEPT !.status = 200, !.response = text,
                               !.usedApiKey = q.hasValidApiKey,
                               !.cors = TRUE, !.json = TRUE])

\* mutant: one attempt too many
loopContinues_extra(attempt) == attempt <= MAX_RETRIES + 1

\* line 235: the loop test
loopContinues(attempt) == attempt <= MAX_RETRIES

\* lines 235-237: the next ai.run; line 254 and the catch of lines 556-562 when
\* the loop is left

nextAttempt(q) ==
    IF loopContinues(q.attempt + 1)
    THEN [q EXCEPT !.pc = "aiRun", !.attempt = @ + 1, !.aiRuns = @ + 1]
    ELSE Done([q EXCEPT !.attempt = @ + 1],
              ErrorResponse(500, "AI_ERROR", "AI service error: ", q.lastError))

\* mutant: the first error is kept
catchRunError_first(lastError, error) == IF lastError = "none" THEN error ELSE lastError

\* line 244
catchRunError(lastError, error) == error

\* mutant: the last failure is waited after as well
waitsBeforeRetry_always(attempt) == attempt <= MAX_RETRIES

\* line 247
waitsBeforeRetry(attempt) == attempt < MAX_RETRIES

\* mutant: a request with its own key is served by the binding when there is one
PageFetched_bindingFirst(r, outcome, aiBound) ==
    /\ req[r].pc = "page"
    /\ LET q == [req[r] EXCEPT !.page = outcome]
           content == fetchWebsiteContent(outcome)
       IN  req' = [req EXCEPT ![r] =
                     IF fetchFailed(content)
                     THEN Done(q, ErrorResponse(400, "FETCH_ERROR",
                                      "Could not fetch website: ", content[1]))
                     ELSE IF aiBound
                     THEN nextAttempt([q EXCEPT !.prompt = content])
                     ELSE IF q.hasValidApiKey
                     THEN [q EXCEPT !.pc = "credRun", !.credRuns = @ + 1,
                                    !.prompt = content]
                     ELSE Done(q, ErrorResponse(500, "CONFIG_ERROR",
                                      "Chat is not configured. AI binding missing.", ""))]
    /\ UNCHANGED <<now, globalCounter, rateLimitMap, ret, ord>>
    /\ UNCHANGED gatewayVars

\* lines 505-563: fetchWebsiteContent has returned
PageFetched(r, outcome, aiBound) ==
    /\ req[r].pc = "page"
    /\ LET q == [req[r] EXCEPT !.page = outcome]
           content == fetchWebsiteContent(outcome)
       IN  req' = [req EXCEPT ![r] =
                     IF fetchFailed(content)
                     THEN Done(q, ErrorResponse(400, "FETCH_ERROR",
                                      "Could not fetch website: ", content[1]))
                     ELSE IF q.hasValidApiKey
                     THEN [q EXCEPT !.pc = "credRun", !.credRuns = @ + 1,
                                    !.prompt = content]
                     ELSE IF ~aiBound
                     THEN Done(q, ErrorResponse(500, "CONFIG_ERROR",
                                      "Chat is not configured. AI binding missing.", ""))
                     ELSE nextAttempt([q EXCEPT !.prompt = content])]
    /\ UNCHANGED <<now, globalCounter, rateLimitMap, ret, ord>>
    /\ UNCHANGED gatewayVars

\* lines 236-251: ai.run has settled
AiRunSettled(r, outcome) ==
    /\ req[r].pc = "aiRun"
    /\ LET q == [req[r] EXCEPT !.backend = outcome] IN
       req' = [req EXCEPT ![r] =
                 IF outcome = "text" THEN chatResponse(q, ReplyOf(q.aiRuns))
                 ELSE IF outcome = "empty" THEN chatResponse(q, NoResponseGenerated)
                 ELSE LET q1 == [q EXCEPT !.lastError =
                                     catchRunError(q.lastError, ErrorOf(q.aiRuns))]
                      IN  IF waitsBeforeRetry(q1.attempt)
                          THEN [q1 EXCEPT !.pc = "backoff",
                                          !.wakeAt = now + q1.attempt * 500]
                          ELSE nextAttempt(q1)]
    /\ UNCHANGED <<now, globalCounter, rateLimitMap, ret, ord>>
    /\ UNCHANGED gatewayVars

\* line 249: the timer has fired
BackoffDone(r) ==
    /\ req[r].pc = "backoff"
    /\ now >= req[r].wakeAt
    /\ req' = [req EXCEPT ![r] = nextAttempt(@)]
    /\ UNCHANGED <<now, globalCounter, rateLimitMap, ret, ord>>
    /\ UNCHANGED gatewayVars

\* mutant: the messages of the body are not looked at
credError_statusOnly(outcome) ==
    CASE outcome \in {"401", "403"} -> "Invalid API key. Please check your Cloudflare API token."
      [] outcome = "429"            -> "API rate limit exceeded on your account."
      [] outcome \in {"500", "500errors"} -> "Cloudflare API error: API error: 500"
      [] outcome \in {"successFalse", "successFalseErrors"} -> "AI request failed"
      [] outcome = "badJson"        -> "SyntaxError"
      [] OTHER                      -> "fetch failed"

\* lines 298-318 and the catch of lines 531-537: the error chatWithUserApiKey throws
credError(outcome) ==
    CASE outcome \in {"401", "403"} -> "Invalid API key. Please check your Cloudflare API token."
      [] outcome = "429"            -> "API rate limit exceeded on your account."
      [] outcome = "500"            -> "Cloudflare API error: API error: 500"
      [] outcome = "500errors"      -> "Cloudflare API error: first message"
      [] outcome = "successFalse"   -> "AI request failed"
      [] outcome = "successFalseErrors" -> "first message"
      [] outcome = "badJson"        -> "SyntaxError"
      [] OTHER                      -> "fetch failed"

\* mutant: a failed call is tried again, as on the managed path
afterCredRun_retry(q, outcome) ==
    IF outcome = "text" THEN chatResponse(q, ReplyOf(q.credRuns))
    ELSE IF outcome = "empty" THEN chatResponse(q, NoResponseGenerated)
    ELSE IF q.credRuns < MAX_RETRIES THEN [q EXCEPT !.credRuns = @ + 1]
    ELSE Done(q, ErrorResponse(401, "API_KEY_ERROR", "", credError(outcome)))

\* lines 283-318, 531-537, 565-568: what follows the REST call
afterCredRun(q, outcome) ==
    IF outcome = "text" THEN chatResponse(q, ReplyOf(q.credRuns))
    ELSE IF outcome = "empty" THEN chatResponse(q, NoResponseGenerated)
    ELSE Done(q, ErrorResponse(401, "API_KEY_ERROR", "", credError(outcome)))

\* the fetch of chatWithUserApiKey has settled
CredRunSettled(r, outcome) ==
    /\ req[r].pc = "credRun"
    /\ req' = [req EXCEPT ![r] = afterCredRun([@ EXCEPT !.backend = outcome], outcome)]
    /\ UNCHANGED <<now, globalCounter, rateLimitMap, ret, ord>>
    /\ UNCHANGED gatewayVars

\* the response is sent, the invocation is over
Deliver(r) ==
    /\ req[r].pc = "done"
    /\ req' = [req EXCEPT ![r] = Idle]
    /\ UNCHANGED <<now, globalCounter, rateLimitMap, ret, ord>>
    /\ UNCHANGED gatewayVars

\* chat requests come from one IP, over the start of one window, a moment
\* later, the time the timers take, and the start of the next window
ChatKeys == {"ip1"}
ChatInstants == {1, 1500, windowMs + 1}

NextChat ==
    \/ \E t \in ChatInstants : Tick(t)
    \/ \E r \in Reqs : Arrive(r)
    \/ \E r \in Reqs : BodyRejected(r)
    \/ \E r \in Reqs, keyLength \in KeyLengths, hasAccountId \in BOOLEAN,
          fields \in FieldShapes :
          BodyWithKey(r, keyLength, hasAccountId, fields)
    \/ \E r \in Reqs, keyLength \in KeyLengths, hasAccountId \in BOOLEAN,
          fields \in FieldShapes, ip \in ChatKeys, sweep \in BOOLEAN :
          BodyWithoutKey(r, keyLength, hasAccountId, fields, ip, sweep)
    \/ \E r \in Reqs, outcome \in PageOutcomes, aiBound \in BOOLEAN :
          PageFetched(r, outcome, aiBound)
    \/ \E r \in Reqs, outcome \in RunOutcomes : AiRunSettled(r, outcome)
    \/ \E r \in Reqs : BackoffDone(r)
    \/ \E r \in Reqs, outcome \in CredOutcomes : CredRunSettled(r, outcome)
    \/ \E r \in Reqs : Deliver(r)

SpecChat == Init /\ [][NextChat]_vars

----------------------------------------------------------------------------
(* The messages sent to the model *)

Max(a, b) == IF a > b THEN a ELSE b

\* Array.prototype.slice(start) of a sequence
slice(a, start) ==
    LET k == IF start < 0 THEN Max(Len(a) + start, 0) ELSE Min(start, Len(a))
    IN  SubSeq(a, k + 1, Len(a))

\* lines 215-220 and 268-273: the same template in both functions
systemPrompt(websiteUrl, websiteContent) ==
    <<"You are a helpful assistant that answers questions about the website ",
      websiteUrl, "Website Content:", websiteContent>>

\* lines 222-226
managedMessages(websiteUrl, websiteContent, userMessage, chatHistory) ==
    <<[role |-> "system", content |-> systemPrompt(websiteUrl, websiteContent)]>>
        \o slice(chatHistory, -6)
        \o <<[role |-> "user", content |-> <<userMessage>>]>>

\* mutant: the credential path sends the whole history
credentialMessages_whole(websiteUrl, websiteContent, userMessage, chatHistory) ==
    <<[role |-> "system", content |-> systemPrompt(websiteUrl, websiteContent)]>>
        \o chatHistory
        \o <<[role |-> "user", content |-> <<userMessage>>]>>

\* lines 275-279
credentialMessages(websiteUrl, websiteContent, userMessage, chatHistory) ==
    <<[role |-> "system", content |-> systemPrompt(websiteUrl, websiteContent)]>>
        \o slice(chatHistory, -6)
        \o <<[role |-> "user", content |-> <<userMessage>>]>>

\* the longest history looked at
MaxHistory == 8
Roles == {"user", "assistant"}
\* histories whose i-th turn says i, by either speaker
Histories ==
    UNION {{[i \in 1..n |-> [role |-> who[i], content |-> <<ToString(i)>>]] :
               who \in [1..n -> Roles]} : n \in 0..MaxHistory}

InitEnvelope ==
    /\ InitService
    /\ page = NoPage
    /\ \E h \in Histories, c \in {"# Page", "Error: not a page"} :
          envelope = [NoEnvelope EXCEPT !.websiteUrl = "example.com", !.websiteContent = c,
                                        !.userMessage = "hi", !.chatHistory = h]

\* chatWithAI builds its messages, lines 215-226
ManagedEnvelope ==
    /\ envelope.managed = << >>
    /\ envelope' = [envelope EXCEPT !.managed =
           managedMessages(envelope.websiteUrl, envelope.websiteContent,
                           envelope.userMessage, envelope.chatHistory)]
    /\ UNCHANGED <<now, inv, modelsCache, page>>
    /\ UNCHANGED chatVars

\* chatWithUserApiKey builds its messages, lines 268-279
CredentialEnvelope ==
    /\ envelope.credential = << >>
    /\ envelope' = [envelope EXCEPT !.credential =
           credentialMessages(envelope.websiteUrl, envelope.websiteContent,
                              envelope.userMessage, envelope.chatHistory)]
    /\ UNCHANGED <<now, inv, modelsCache, page>>
    /\ UNCHANGED chatVars

NextEnvelope == ManagedEnvelope \/ CredentialEnvelope

SpecEnvelope == InitEnvelope /\ [][NextEnvelope]_vars

----------------------------------------------------------------------------
(* The other routes of the fetch handler *)

Hosts == {"tomcp.org", "www.tomcp.org"}
Methods == {"GET", "POST", "OPTIONS", "PUT"}
\* line 578
StaticAssets == {"logo.svg", "logo.png", "logowhite.svg", "robots.txt", "sitemap.xml"}
\* url.pathname.slice(1) of the requests looked at
Paths == {"", "chat", "models", "validate-api-key", "validate-key", "logo.svg",
          "robots.txt", "example.com"}

\* lines 406-756: the order in which the handler tests host, method and path
route(host, method, path) ==
    IF host = "www.tomcp.org" THEN "www"
    ELSE IF method = "OPTIONS" THEN "options"
    ELSE IF path = "models" THEN "models"
    ELSE IF path = "validate-api-key" /\ method = "POST" THEN "validate"
    ELSE IF path = "chat" /\ method = "POST" THEN "chat"
    ELSE IF path \in StaticAssets THEN "static"
    ELSE IF path = "" THEN "homepage"
    ELSE IF method = "POST" THEN "mcp"
    ELSE "redirect"

\* the invocation answers
Replied(v, resp) == [v EXCEPT !.pc = "done", !.resp = resp]
\* the invocation issues an outbound fetch and is suspended on it
Fetching(v, pc, call) == [v EXCEPT !.pc = pc, !.calls = Append(@, call)]

\* Response.redirect(url, status), lines 408 and 756
redirectResponse(status) == [NoReply EXCEPT !.status = status, !.kind = "redirect"]
\* new Response(null, { headers: corsHeaders }), line 422
preflightResponse == [NoReply EXCEPT !.status = 200, !.kind = "empty", !.cors = TRUE]

(* Model catalog, fetchCloudflareModels *)

MODELS_CACHE_TTL == 5 * 60 * 1000

\* entries of data.result.  `description` is the display name, `embedding`
\* the value of name.includes('embedding'), `beta` whether a property has
\* property_id 'beta'
Llama == [name |-> "@cf/meta/llama", description |-> "Llama",
          task |-> "Text Generation", embedding |-> FALSE, beta |-> TRUE]
Mistral == [name |-> "@cf/mistral/mistral", description |-> "Mistral",
            task |-> "Text Generation", embedding |-> FALSE, beta |-> FALSE]
Bge == [name |-> "@cf/baai/bge-embedding", description |-> "Bge",
        task |-> "Text Generation", embedding |-> TRUE, beta |-> TRUE]
Whisper == [name |-> "@cf/openai/whisper", description |-> "Whisper",
            task |-> "Automatic Speech Recognition", embedding |-> FALSE, beta |-> TRUE]
Qwen == [name |-> "@cf/qwen/qwen", description |-> "Qwen",
         task |-> "Text Generation", embedding |-> FALSE, beta |-> TRUE]
RawCatalogs == {<< >>, <<Mistral, Llama>>, <<Qwen, Mistral, Bge, Whisper, Llama>>}

\* the display names in the order of localeCompare
Alphabetical == <<"Bge", "Llama", "Mistral", "Qwen", "Whisper">>
localeCompare(a, b) ==
    LET rank(n) == CHOOSE i \in 1..Len(Alphabetical) : Alphabetical[i] = n
    IN  rank(a) - rank(b)

\* line 167
isChatModel(m) == m.task = "Text Generation" /\ ~m.embedding
\* lines 168-173 (provider, a function of name, is left out)
descriptor(m) == [id |-> m.name, name |-> m.description, free |-> m.beta]
\* lines 174-178: negative when a goes before b
compareModels(a, b) ==
    IF a.free # b.free THEN (IF a.free THEN -1 ELSE 1) ELSE localeCompare(a.name, b.name)

RECURSIVE insertModel(_, _)
insertModel(sorted, m) ==
    IF sorted = << >> THEN <<m>>
    ELSE IF compareModels(m, sorted[Len(sorted)]) < 0
         THEN Append(insertModel(SubSeq(sorted, 1, Len(sorted) - 1), m), sorted[Len(sorted)])
         ELSE Append(sorted, m)

\* Array.prototype.sort with compareModels (stable)
RECURSIVE sortModels(_)
sortModels(list) ==
    IF list = << >> THEN << >>
    ELSE insertModel(sortModels(SubSeq(list, 1, Len(list) - 1)), list[Len(list)])

\* lines 166-178
formatModels(result) ==
    sortModels([i \in 1..Len(SelectSeq(result, isChatModel)) |->
                   descriptor(SelectSeq(result, isChatModel)[i])])

\* lines 185-198
FallbackModels ==
    << [id |-> "@cf/meta/llama-3.1-8b-instruct", name |-> "Llama 3.1 8B", free |-> TRUE],
       [id |-> "@hf/nousresearch/hermes-2-pro-mistral-7b", name |-> "Hermes 2 Pro", free |-> TRUE],
       [id |-> "@cf/mistral/mistral-7b-instruct-v0.1", name |-> "Mistral 7B", free |-> TRUE],
       [id |-> "@cf/google/gemma-7b-it-lora", name |-> "Gemma 7B LoRA", free |-> TRUE],
       [id |-> "@cf/meta/llama-3.3-70b-instruct-fp8-fast", name |-> "Llama 3.3 70B", free |-> FALSE],
       [id |-> "@cf/deepseek-ai/deepseek-r1-distill-qwen-32b", name |-> "DeepSeek R1 32B", free |-> FALSE],
       [id |-> "@cf/mistral/mistral-large-2407", name |-> "Mistral Large", free |-> FALSE],
       [id |-> "@cf/google/gemma-3-12b-it", name |-> "Gemma 3 12B", free |-> FALSE],
       [id |-> "@cf/openai/gpt-oss-120b", name |-> "GPT OSS 120B", free |-> FALSE],
       [id |-> "@cf/openai/gpt-oss-20b", name |-> "GPT OSS 20B", free |-> FALSE] >>

\* mutant: the cache is still fresh when exactly the TTL has passed
cacheFresh_inclusive(cache, t) == cache.filled /\ t - cache.timestamp <= MODELS_CACHE_TTL

\* line 142
cacheFresh(cache, t) == cache.filled /\ t - cache.timestamp < MODELS_CACHE_TTL

\* what the catalog fetch can come to: the fetch rejects; a status that is not
\* ok; a body that is not JSON; a body whose result makes filter or a callback
\* throw (JSON null, a result that is no array, an entry without name); a JSON
\* body without result; a result array
CatalogOutcomes == {"throw", "status", "badJson", "badShape", "noResult", "ok"}

\* mutant: the status of the response is not looked at, and the error body of
\* the API, which has no result, is formatted
catalogOf_statusIgnored(outcome, result) ==
    IF outcome = "ok" THEN [models |-> formatModels(result), cached |-> TRUE]
    ELSE IF outcome \in {"noResult", "status"} THEN [models |-> << >>, cached |-> TRUE]
    ELSE [models |-> FallbackModels, cached |-> FALSE]

\* lines 146-199: the list returned once the fetch has settled, and whether it
\* was put in the cache (line 180)
catalogOf(outcome, result) ==
    IF outcome = "ok" THEN [models |-> formatModels(result), cached |-> TRUE]
    ELSE IF outcome = "noResult" THEN [models |-> << >>, cached |-> TRUE]
    ELSE [models |-> FallbackModels, cached |-> FALSE]

\* Response.json(models, { headers: corsHeaders }), line 430
modelsResponse(models) ==
    [NoReply EXCEPT !.status = 200, !.kind = "models", !.models = models,
                    !.cors = TRUE, !.json = TRUE]

\* lines 403-756 up to the first await: a request arrives and is routed
Dispatch(r, host, method, path) ==
    /\ req[r].pc = "idle" /\ inv[r].pc = "idle"
    /\ LET v == [NoInvocation EXCEPT !.route = route(host, method, path),
                                     !.host = host, !.method = method, !.path = path]
       IN  IF v.route = "chat" THEN Arrive(r)
           ELSE /\ inv' = [inv EXCEPT ![r] =
                     CASE v.route = "www" -> Replied(v, redirectResponse(301))
                       [] v.route = "options" -> Replied(v, preflightResponse)
                       [] v.route = "models" ->
                            IF cacheFresh(modelsCache, now)
                            THEN Replied(v, modelsResponse(modelsCache.models))
                            ELSE Fetching(v, "modelsFetch", "catalog")
                       [] v.route = "validate" -> [v EXCEPT !.pc = "validateBody"]
                       [] v.route = "static" -> Fetching(v, "asset", "asset")
                       [] v.route = "homepage" -> Fetching(v, "homepage", "index.html")
                       [] v.route = "mcp" -> [v EXCEPT !.pc = "mcpBody"]
                       [] v.route = "redirect" -> Replied(v, redirectResponse(302))]
                /\ UNCHANGED <<now, modelsCache, envelope, page>>
                /\ UNCHANGED chatVars

\* mutant: the list that is returned is the list that is kept
ModelsFetched_keepsReturned(r, outcome, result) ==
    /\ inv[r].pc = "modelsFetch"
    /\ LET got == catalogOf(outcome, result)
       IN  /\ modelsCache' = [filled |-> TRUE, models |-> got.models, timestamp |-> now]
           /\ inv' = [inv EXCEPT ![r] =
                         Replied([@ EXCEPT !.outcome = outcome], modelsResponse(got.models))]
    /\ UNCHANGED <<now, envelope, page>>
    /\ UNCHANGED chatVars

\* lines 154-181, 428-430: the catalog fetch has settled and its body was read
ModelsFetched(r, outcome, result) ==
    /\ inv[r].pc = "modelsFetch"
    /\ LET got == catalogOf(outcome, result)
       IN  /\ modelsCache' = IF got.cached
                             THEN [filled |-> TRUE, models |-> got.models, timestamp |-> now]
                             ELSE modelsCache
           /\ inv' = [inv EXCEPT ![r] =
                         Replied([@ EXCEPT !.outcome = outcome], modelsResponse(got.models))]
    /\ UNCHANGED <<now, envelope, page>>
    /\ UNCHANGED chatVars

(* Credential validation, POST /validate-api-key *)

\* what an API call came to: status 0 stands for a rejected fetch, `body` is
\* "badJson" when json() rejects, and else tells the success member of the body
Backend(status, body, result) == [status |-> status, body |-> body, result |-> result]
\* response.ok
ok(response) == response.status \in 200..299

VerifyOutcomes ==
    {Backend(0, "none", << >>), Backend(401, "successFalse", << >>),
     Backend(403, "successFalse", << >>), Backend(500, "badJson", << >>),
     Backend(500, "successFalse", << >>), Backend(200, "badJson", << >>),
     Backend(200, "successFalse", << >>), Backend(200, "successTrue", << >>)}
\* `result` holds the ids of the accounts of the body
AccountsOutcomes ==
    {Backend(0, "none", << >>), Backend(403, "successFalse", << >>),
     Backend(200, "badJson", << >>), Backend(200, "successFalse", << >>),
     Backend(200, "successTrue", << >>), Backend(200, "successTrue", <<"acc1">>),
     Backend(200, "successTrue", <<"acc2", "acc1">>)}
ProbeOutcomes ==
    {Backend(0, "none", << >>), Backend(200, "successTrue", << >>),
     Backend(403, "successFalse", << >>), Backend(500, "badJson", << >>)}

\* the value validateApiKey returns; valid "none": it has not returned
Invalid(error) == [valid |-> "false", error |-> error, accountId |-> "none"]
Valid(accountId) == [valid |-> "true", error |-> "none", accountId |-> accountId]
GoesOn == [valid |-> "none", error |-> "none", accountId |-> "none"]

\* mutant: the success member of the verify body is not looked at
afterVerify_statusOnly(response) ==
    IF response.status = 0 THEN Invalid("fetch failed")
    ELSE IF response.status \in {401, 403}
    THEN Invalid("Invalid API key. Please check your Cloudflare API token.")
    ELSE IF response.body = "badJson" THEN Invalid("SyntaxError")
    ELSE GoesOn

\* lines 324-338, and the catch of line 379 for a rejected fetch or json()
afterVerify(response) ==
    IF response.status = 0 THEN Invalid("fetch failed")
    ELSE IF response.status \in {401, 403}
    THEN Invalid("Invalid API key. Please check your Cloudflare API token.")
    ELSE IF response.body = "badJson" THEN Invalid("SyntaxError")
    ELSE IF response.body # "successTrue"
    THEN Invalid("Invalid API key. Token verification failed.")
    ELSE GoesOn

\* lines 341-361, and the catch of line 379
afterAccounts(response) ==
    IF response.status = 0 THEN Invalid("fetch failed")
    ELSE IF ~ok(response)
    THEN Invalid("Could not retrieve account info. Make sure your API token has Account permissions.")
    ELSE IF response.body = "badJson" THEN Invalid("SyntaxError")
    ELSE IF response.body # "successTrue" \/ Len(response.result) = 0
    THEN Invalid("No accounts found. Make sure your API token has Account read permissions.")
    ELSE GoesOn

\* mutant: the answer of the probe is not looked at
afterProbe_any(response, userAccountId) ==
    IF response.status = 0 THEN Invalid("fetch failed")
    ELSE Valid(userAccountId)

\* lines 364-378, and the catch of line 379
afterProbe(response, userAccountId) ==
    IF response.status = 0 THEN Invalid("fetch failed")
    ELSE IF ~ok(response)
    THEN Invalid("API key valid but no Workers AI access. Make sure your token has Workers AI permissions.")
    ELSE Valid(userAccountId)

\* Response.json of a validation result, lines 440-452
validateResponse(status, result) ==
    [NoReply EXCEPT !.status = status, !.kind = "validation", !.valid = result.valid,
                    !.error = result.error, !.accountId = result.accountId,
                    !.cors = TRUE, !.json = TRUE]

\* mutant: a key is long enough from 9 characters on
keyTooShort_nine(apiKeyLength) == apiKeyLength < 9

\* line 439: !apiKey || apiKey.length < 10 (length 0: no apiKey, or an empty one)
keyTooShort(apiKeyLength) == apiKeyLength = 0 \/ apiKeyLength < 10

\* lengths of body.apiKey
ValidateKeyLengths == {0, 9, 10, 40}

\* lines 436, 449-453: request.json() rejects, the catch of the route answers
ValidateBodyRejected(r) ==
    /\ inv[r].pc = "validateBody"
    /\ inv' = [inv EXCEPT ![r] = Replied([@ EXCEPT !.bodyShape = "unparseable"],
                                          validateResponse(500, Invalid("SyntaxError")))]
    /\ UNCHANGED <<now, modelsCache, envelope, page>>
    /\ UNCHANGED chatVars

\* lines 436-446, 324: the body is read; a short key is refused, else
\* validateApiKey starts and fetches tokens/verify
ValidateBody(r, apiKeyLength) ==
    /\ inv[r].pc = "validateBody"
    /\ inv' = [inv EXCEPT ![r] =
          IF keyTooShort(apiKeyLength)
          THEN Replied([@ EXCEPT !.bodyShape = "object", !.apiKeyLength = apiKeyLength],
                       validateResponse(400,
                          Invalid("API key is required and must be at least 10 characters.")))
          ELSE Fetching([@ EXCEPT !.bodyShape = "object", !.apiKeyLength = apiKeyLength],
                        "verify", "verify")]
    /\ UNCHANGED <<now, modelsCache, envelope, page>>
    /\ UNCHANGED chatVars

\* validateApiKey returned, lines 446-448
Validated(v, result) == Replied(v, validateResponse(200, result))

\* lines 331-346
VerifySettled(r, response) ==
    /\ inv[r].pc = "verify"
    /\ LET v == [inv[r] EXCEPT !.settled = Append(@, response)]
           result == afterVerify(response)
       IN  inv' = [inv EXCEPT ![r] = IF result = GoesOn
                                     THEN Fetching(v, "accounts", "accounts")
                                     ELSE Validated(v, result)]
    /\ UNCHANGED <<now, modelsCache, envelope, page>>
    /\ UNCHANGED chatVars

\* lines 348-372
AccountsSettled(r, response) ==
    /\ inv[r].pc = "accounts"
    /\ LET v == [inv[r] EXCEPT !.settled = Append(@, response)]
           result == afterAccounts(response)
       IN  inv' = [inv EXCEPT ![r] =
                      IF result = GoesOn
                      THEN Fetching([v EXCEPT !.userAccountId = response.result[1]],
                                    "probe", "probe")
                      ELSE Validated(v, result)]
    /\ UNCHANGED <<now, modelsCache, envelope, page>>
    /\ UNCHANGED chatVars

\* lines 374-378
ProbeSettled(r, response) ==
    /\ inv[r].pc = "probe"
    /\ LET v == [inv[r] EXCEPT !.settled = Append(@, response)]
       IN  inv' = [inv EXCEPT ![r] = Validated(v, afterProbe(response, v.userAccountId))]
    /\ UNCHANGED <<now, modelsCache, envelope, page>>
    /\ UNCHANGED chatVars

(* Static assets and homepage *)

\* what a fetch of a page or file can come to
FetchOutcomes == {"ok", "status", "throw"}

\* the runtime's answer to an exception that left the handler
uncaughtException == [NoReply EXCEPT !.status = 500, !.kind = "exception"]
\* new Response(body, { headers: { ...corsHeaders, ... } })
passthroughResponse(kind) == [NoReply EXCEPT !.status = 200, !.kind = kind, !.cors = TRUE]
\* line 609
errorLoadingPage ==
    [NoReply EXCEPT !.status = 500, !.kind = "text", !.error = "Error loading page",
                    !.cors = TRUE]

\* lines 581-588: the status of the upstream answer is not looked at, and a
\* rejected fetch is not caught
AssetFetched(r, outcome) ==
    /\ inv[r].pc = "asset"
    /\ inv' = [inv EXCEPT ![r] = Replied([@ EXCEPT !.outcome = outcome],
                     IF outcome = "throw" THEN uncaughtException
                     ELSE passthroughResponse("asset"))]
    /\ UNCHANGED <<now, modelsCache, envelope, page>>
    /\ UNCHANGED chatVars

\* lines 597-610
HomepageFetched(r, outcome) ==
    /\ inv[r].pc = "homepage"
    /\ inv' = [inv EXCEPT ![r] = Replied([@ EXCEPT !.outcome = outcome],
                     IF outcome = "ok" THEN passthroughResponse("html")
                     ELSE errorLoadingPage)]
    /\ UNCHANGED <<now, modelsCache, envelope, page>>
    /\ UNCHANGED chatVars

(* MCP, POST on any other path *)

\* the id member of the body: absent, JSON null, a number, a string
RpcIds == {"absent", "null", "7", "abc"}
RpcMethods == {"initialize", "notifications/initialized", "tools/list", "tools/call",
               "resources/list", "absent"}
\* params.name
ToolNames == {"fetch_page", "search", "delete_page", "absent"}

\* lines 385-391, in Response.json(..., { headers: corsHeaders })
createMcpResponse(id) ==
    [NoReply EXCEPT !.status = 200, !.kind = "rpcResult", !.id = id,
                    !.cors = TRUE, !.json = TRUE]

\* mutant: the error does not carry the id of the request
createMcpError_noId(id, code, message) ==
    [NoReply EXCEPT !.status = 200, !.kind = "rpcError", !.id = "null", !.code = code,
                    !.error = message, !.cors = TRUE, !.json = TRUE]

\* lines 393-399, in Response.json(..., { headers: corsHeaders })
createMcpError(id, code, message) ==
    [NoReply EXCEPT !.status = 200, !.kind = "rpcError", !.id = id, !.code = code,
                    !.error = message, !.cors = TRUE, !.json = TRUE]

\* mutant: what was caught is reported as an internal error
mcpCatch_internal(error) == createMcpError("null", -32603, error)

\* lines 747-751: whatever was caught, the answer is the same
mcpCatch(error) == createMcpError("null", -32700, "Parse error")

\* lines 619-626, 747-751: request.json() rejects, or the body is JSON null
\* and cannot be destructured
McpBodyRejected(r, shape) ==
    /\ inv[r].pc = "mcpBody"
    /\ inv' = [inv EXCEPT ![r] = Replied([@ EXCEPT !.bodyShape = shape],
                     mcpCatch(IF shape = "null" THEN "TypeError" ELSE "SyntaxError"))]
    /\ UNCHANGED <<now, modelsCache, envelope, page>>
    /\ UNCHANGED chatVars

\* line 614: path.startsWith('http') ? path : `https://${path}`, as the
\* pieces of the URL
targetUrl(path) ==
    IF path \in {"http://example.org"} THEN <<path>> ELSE <<"https://", path>>

\* arguments.path of a tools/call: absent, a string (as its pieces), or a
\* value of another type
PagePaths == {[type |-> "absent", chars |-> << >>],
              [type |-> "string", chars |-> << >>],
              [type |-> "string", chars |-> <<"/", "docs">>],
              [type |-> "string", chars |-> <<"docs", "/", "api">>],
              [type |-> "number", chars |-> << >>]}

\* mutant: the slash is put in whatever the path starts with
fullUrl_alwaysSlash(target, pagePath) ==
    IF pagePath # << >> THEN target \o <<"/">> \o pagePath ELSE target

\* lines 684-687, for a pagePath that is a string
fullUrl(target, pagePath) ==
    IF pagePath # << >>
    THEN target \o (IF pagePath[1] = "/" THEN << >> ELSE <<"/">>) \o pagePath
    ELSE target

\* the lengths of the markdown of the pages looked at
MarkdownLengths == {0, 29999, 30000, 30001, 50000, 50001}

\* mutant: the text is cut one character late
cutTo_late(length, limit) == Min(length, limit + 1)

\* the length of text.slice(0, limit)
cutTo(length, limit) == Min(length, limit)

\* createMcpResponse(id, { content: [{ type: 'text', text }] }), the text as
\* what it starts with and its length
toolResult(id, head, length) ==
    [createMcpResponse(id) EXCEPT !.text = [head |-> head, length |-> length]]

\* lines 626-746: the switch on method
McpBody(r, id, method, toolName, path) ==
    /\ inv[r].pc = "mcpBody"
    /\ LET call == method = "tools/call"
           v == [inv[r] EXCEPT !.bodyShape = "object", !.id = id, !.rpcMethod = method,
                               !.toolName = IF call THEN toolName ELSE "none",
                               !.targetUrl = targetUrl(inv[r].path),
                               !.pagePath = IF call /\ toolName = "fetch_page"
                                            THEN path ELSE @]
       IN  inv' = [inv EXCEPT ![r] =
              IF method \in {"initialize", "notifications/initialized", "tools/list"}
              THEN Replied(v, createMcpResponse(id))
              ELSE IF call
              THEN IF toolName = "fetch_page"
                   THEN IF path.type = "number"
                        THEN Replied(v, mcpCatch("TypeError"))
                        ELSE Fetching([v EXCEPT !.fullUrl = fullUrl(v.targetUrl, path.chars)],
                                      "mcpPage", "page")
                   ELSE IF toolName = "search" THEN Replied(v, createMcpResponse(id))
                   ELSE Replied(v, createMcpError(id, -32601, "Unknown tool"))
              ELSE Replied(v, createMcpError(id, -32601, "Method not found"))]
    /\ UNCHANGED <<now, modelsCache, envelope, page>>
    /\ UNCHANGED chatVars

\* lines 689-721: every outcome of the page fetch is a result; `length` is
\* the length of the markdown of the page
McpPageFetched(r, outcome, length) ==
    /\ inv[r].pc = "mcpPage"
    /\ inv' = [inv EXCEPT ![r] =
          Replied([@ EXCEPT !.outcome = outcome,
                            !.pageLength = IF outcome = "ok" THEN length ELSE 0],
                  CASE outcome = "ok" -> toolResult(@.id, "markdown", cutTo(length, 50000))
                    [] outcome = "status" -> toolResult(@.id, "Error: Failed to fetch", 60)
                    [] outcome = "throw" -> toolResult(@.id, "Error fetching page: ", 40))]
    /\ UNCHANGED <<now, modelsCache, envelope, page>>
    /\ UNCHANGED chatVars

\* the response of another route is sent, the invocation is over
Sent(r) ==
    /\ inv[r].pc = "done"
    /\ inv' = [inv EXCEPT ![r] = NoInvocation]
    /\ UNCHANGED <<now, modelsCache, envelope, page>>
    /\ UNCHANGED chatVars

\* how many times the cache is let go stale
MaxRefills == 2
\* the instants around the end of each freshness period
ModelsInstants == {k * MODELS_CACHE_TTL + o : k \in 0..MaxRefills, o \in {-1, 0, 1}} \cap Nat

NextModels ==
    \/ \E t \in ModelsInstants : Tick(t)
    \/ \E r \in Reqs, method \in {"GET", "POST"} : Dispatch(r, "tomcp.org", method, "models")
    \/ \E r \in Reqs, outcome \in CatalogOutcomes, result \in RawCatalogs :
          ModelsFetched(r, outcome, result)
    \/ \E r \in Reqs : Sent(r)

SpecModels == Init /\ [][NextModels]_vars

(* The whole handler, one request at a time *)

\* the slot of the request
One == {"r1"}

NextService ==
    \/ \E t \in ChatInstants : Tick(t)
    \/ \E r \in One, host \in Hosts, method \in Methods, path \in Paths :
          Dispatch(r, host, method, path)
    \/ \E r \in One : BodyRejected(r)
    \/ \E r \in One, keyLength \in KeyLengths, hasAccountId \in BOOLEAN,
          fields \in FieldShapes :
          BodyWithKey(r, keyLength, hasAccountId, fields)
    \/ \E r \in One, keyLength \in KeyLengths, hasAccountId \in BOOLEAN,
          fields \in FieldShapes, ip \in ChatKeys, sweep \in BOOLEAN :
          BodyWithoutKey(r, keyLength, hasAccountId, fields, ip, sweep)
    \/ \E r \in One, outcome \in PageOutcomes, aiBound \in BOOLEAN :
          PageFetched(r, outcome, aiBound)
    \/ \E r \in One, outcome \in RunOutcomes : AiRunSettled(r, outcome)
    \/ \E r \in One : BackoffDone(r)
    \/ \E r \in One, outcome \in CredOutcomes : CredRunSettled(r, outcome)
    \/ \E r \in One : Deliver(r)
    \/ \E r \in One, outcome \in CatalogOutcomes :
          ModelsFetched(r, outcome, <<Mistral, Llama>>)
    \/ \E r \in One : ValidateBodyRejected(r)
    \/ \E r \in One, apiKeyLength \in ValidateKeyLengths : ValidateBody(r, apiKeyLength)
    \/ \E r \in One, response \in VerifyOutcomes : VerifySettled(r, response)
    \/ \E r \in One, response \in AccountsOutcomes : AccountsSettled(r, response)
    \/ \E r \in One, response \in ProbeOutcomes : ProbeSettled(r, response)
    \/ \E r \in One, outcome \in FetchOutcomes : AssetFetched(r, outcome)
    \/ \E r \in One, outcome \in FetchOutcomes : HomepageFetched(r, outcome)
    \/ \E r \in One, shape \in {"unparseable", "null"} : McpBodyRejected(r, shape)
    \/ \E r \in One, id \in RpcIds, method \in RpcMethods, toolName \in ToolNames :
          McpBody(r, id, method, toolName, [type |-> "absent", chars |-> << >>])
    \/ \E r \in One, outcome \in FetchOutcomes : McpPageFetched(r, outcome, 0)
    \/ \E r \in One : Sent(r)

SpecService == Init /\ [][NextService]_vars

(* The MCP route alone *)

\* the paths POSTed to
McpPaths == {"example.com", "http://example.org"}

NextMcp ==
    \/ \E r \in One, path \in McpPaths : Dispatch(r, "tomcp.org", "POST", path)
    \/ \E r \in One, shape \in {"unparseable", "null"} : McpBodyRejected(r, shape)
    \/ \E r \in One, id \in RpcIds, method \in RpcMethods, toolName \in ToolNames,
          path \in PagePaths :
          McpBody(r, id, method, toolName, path)
    \/ \E r \in One, outcome \in FetchOutcomes, length \in MarkdownLengths :
          McpPageFetched(r, outcome, length)
    \/ \E r \in One : Sent(r)

SpecMcp == Init /\ [][NextMcp]_vars

----------------------------------------------------------------------------
(* Content Fetcher, fetchWebsiteContent *)

\* fetch(url) rejects; it resolves and response.text() is not reached or
\* resolves; it resolves and response.text() rejects
Upstreams ==
    {[kind |-> "reject", status |-> 0]} \cup
    {[kind |-> k, status |-> st] : k \in {"response", "textRejects"},
                                  st \in {200, 204, 299, 300, 404, 500}}

\* response.ok
responseOk(status) == status >= 200 /\ status <= 299

\* a string fetchWebsiteContent returns, as its pieces; `contentLength` is the
\* length of the markdown in it; `raised` tells a promise that rejects
Returned(content, contentLength) ==
    [raised |-> FALSE, content |-> content, contentLength |-> contentLength]
\* lines 130-132: the catch
fetchCaught == Returned(<<"Error fetching", " ", "url", ": ", "message">>, 0)

\* mutant: no try around the fetch
fetchWebsiteContentOf_uncaught(upstream, length) ==
    IF upstream.kind = "reject" THEN [Returned(<< >>, 0) EXCEPT !.raised = TRUE]
    ELSE IF ~responseOk(upstream.status)
    THEN Returned(<<"Error:", " Could not fetch ", "url", " (", ToString(upstream.status), ")">>, 0)
    ELSE IF upstream.kind = "textRejects" THEN [Returned(<< >>, 0) EXCEPT !.raised = TRUE]
    ELSE Returned(<<"markdown">>, cutTo(length, 30000))

\* lines 118-133, for a page whose markdown has `length` characters
fetchWebsiteContentOf(upstream, length) ==
    IF upstream.kind = "reject" THEN fetchCaught
    ELSE IF ~responseOk(upstream.status)
    THEN Returned(<<"Error:", " Could not fetch ", "url", " (", ToString(upstream.status), ")">>, 0)
    ELSE IF upstream.kind = "textRejects" THEN fetchCaught
    ELSE Returned(<<"markdown">>, cutTo(length, 30000))

\* fetchWebsiteContent is about to be called
InitFetcher ==
    /\ InitService
    /\ envelope = NoEnvelope
    /\ \E upstream \in Upstreams, length \in MarkdownLengths :
          page = [NoPage EXCEPT !.upstream = upstream, !.length = length]

\* fetchWebsiteContent(url) settles
FetchContent ==
    /\ page.upstream.kind # "none"
    /\ ~page.returned
    /\ LET out == fetchWebsiteContentOf(page.upstream, page.length) IN
       page' = [page EXCEPT !.returned = TRUE, !.raised = out.raised,
                            !.content = out.content,
                            !.contentLength = out.contentLength]
    /\ UNCHANGED <<now, inv, modelsCache, envelope>>
    /\ UNCHANGED chatVars

SpecFetcher == InitFetcher /\ [][FetchContent]_vars

----------------------------------------------------------------------------
(* Markdown Transducer, htmlToMarkdown *)

\* A text is a sequence of symbols: "<", ">", "/", "&", the double quote, the
\* blank, the newline, a tag name, `href=`, the rest of an entity ("amp;"), a
\* word; "backtick" and "fence" are the backtick and three of them.  Names are
\* in lower case (the rules ignore case).  A rule is one
\* String.replace with a global regular expression: the matches are looked for
\* from left to right, each from the end of the one before.

\* the tag names a rule's `<name` goes with: the name is followed by `[^>]*`
\* or `[\s\S]*?`, so that a longer name that starts with it goes with it too
Named(name) ==
    CASE name = "p" -> {"p", "pre"}
      [] name = "b" -> {"b", "br"}
      [] name = "i" -> {"i", "img"}
      [] name = "li" -> {"li", "link"}
      [] OTHER -> {name}

\* `<name`, and `</name>` which goes with the name alone
OpenOf(names) == {<<{"<"}, UNION {Named(n) : n \in names}>>}
CloseOf(names) == {<<{"<"}, {"/"}, names, {">"}>>}

\* one of the alternatives `alts` is at k in s
IsAt(alts, s, k) ==
    \E a \in alts : /\ k + Len(a) - 1 <= Len(s)
                    /\ \A n \in 1..Len(a) : s[k + n - 1] \in a[n]
LenAt(alts, s, k) ==
    Len(CHOOSE a \in alts : /\ k + Len(a) - 1 <= Len(s)
                            /\ \A n \in 1..Len(a) : s[k + n - 1] \in a[n])

\* the place of the first sym at or after j in s, 0 if there is none
IndexOf(s, sym, j) ==
    IF \E g \in j..Len(s) : s[g] = sym
    THEN CHOOSE g \in j..Len(s) : s[g] = sym /\ \A h \in j..(g - 1) : s[h] # sym
    ELSE 0

\* the place of the first of `alts` at or after j in s, 0 if there is none
FirstAt(alts, s, j) ==
    IF \E k \in j..Len(s) : IsAt(alts, s, k)
    THEN CHOOSE k \in j..Len(s) : IsAt(alts, s, k) /\ \A h \in j..(k - 1) : ~IsAt(alts, s, h)
    ELSE 0

NoMatch == [ok |-> FALSE, from |-> 0, to |-> 0, next |-> 0]

\* the end of `[^>]{min,}>` from j in s, 0 if there is none
TagEnd(s, j, min) ==
    LET g == IndexOf(s, ">", j) IN IF g # 0 /\ g - j >= min THEN g ELSE 0

\* A rule: `starts` is what a match begins with; with `tag` it goes on with
\* `[^>]*>` (`[^>]+>` for min = 1), then with `inner` (`<code[^>]*>`) if there
\* is one; with `lazy` it goes on with `([\s\S]*?)` up to the first of `ends`.
\* The match is replaced by `before`, the group if `keep`, `after`.
\* The match of rule at i in s: the group is s[from..to], the match ends before next.
MatchAt(rule, s, i) ==
    IF ~IsAt(rule.starts, s, i) THEN NoMatch
    ELSE
    LET j == i + LenAt(rule.starts, s, i)
        g == IF rule.tag THEN TagEnd(s, j, rule.min) ELSE j - 1
        g2 == IF g = 0 \/ rule.inner = {} THEN g
              ELSE IF IsAt(rule.inner, s, g + 1)
                   THEN TagEnd(s, g + 1 + LenAt(rule.inner, s, g + 1), 0)
                   ELSE 0
    IN  IF g2 = 0 THEN NoMatch
        ELSE IF ~rule.lazy THEN [ok |-> TRUE, from |-> g2 + 1, to |-> g2, next |-> g2 + 1]
        ELSE LET k == FirstAt(rule.ends, s, g2 + 1) IN
             IF k = 0 THEN NoMatch
             ELSE [ok |-> TRUE, from |-> g2 + 1, to |-> k - 1,
                   next |-> k + LenAt(rule.ends, s, k)]

RECURSIVE Scan(_, _, _)
\* s.replace(rule, replacement), from i on: the text up to the first match j,
\* what replaces the match, and the same for the text after the match
Scan(rule, s, i) ==
    IF \A j \in i..Len(s) : ~MatchAt(rule, s, j).ok THEN SubSeq(s, i, Len(s))
    ELSE CHOOSE r \in
           {SubSeq(s, i, j - 1) \o rule.before
              \o (IF rule.keep THEN SubSeq(s, MatchAt(rule, s, j).from, MatchAt(rule, s, j).to)
                  ELSE << >>)
              \o rule.after \o Scan(rule, s, MatchAt(rule, s, j).next)
            : j \in {CHOOSE x \in i..Len(s) :
                        /\ MatchAt(rule, s, x).ok
                        /\ \A y \in i..(x - 1) : ~MatchAt(rule, s, y).ok}} : TRUE

Rule(starts, tag, min, inner, lazy, ends, before, keep, after) ==
    [starts |-> starts, tag |-> tag, min |-> min, inner |-> inner, lazy |-> lazy,
     ends |-> ends, before |-> before, keep |-> keep, after |-> after]

\* /<name[\s\S]*?<\/name>/gi -> ''
Block(name) == Rule(OpenOf({name}), FALSE, 0, {}, TRUE, CloseOf({name}), << >>, FALSE, << >>)
\* /<name[^>]*>([\s\S]*?)<\/name>/gi -> before $1 after
Paired(names, before, after) ==
    Rule(OpenOf(names), TRUE, 0, {}, TRUE, CloseOf(names), before, TRUE, after)
\* /&name/g -> char
Entity(name, char) ==
    Rule({<<{"&"}, {name}>>}, FALSE, 0, {}, FALSE, {}, <<char>>, FALSE, << >>)

\* line 96: /<pre[^>]*><code[^>]*>([\s\S]*?)<\/code><\/pre>/gi
PreCode ==
    Rule(OpenOf({"pre"}), TRUE, 0, OpenOf({"code"}), TRUE,
         {<<{"<"}, {"/"}, {"code"}, {">"}, {"<"}, {"/"}, {"pre"}, {">"}>>},
         <<"fence", "\n">>, TRUE, <<"\n", "fence", "\n", "\n">>)
\* line 100: /<\/?[uo]l[^>]*>/gi
ListTag ==
    Rule({<<{"<"}, {"ul", "ol"}>>, <<{"<"}, {"/"}, {"ul", "ol"}>>}, TRUE, 0, {},
         FALSE, {}, <<"\n">>, FALSE, << >>)
\* line 102: /<[^>]+>/g
AnyTag == Rule({<<{"<"}>>}, TRUE, 1, {}, FALSE, {}, << >>, FALSE, << >>)

\* mutant: the g flag is left out, the second block on is left in
removeBlocks_first(s, name) ==
    LET hits == {i \in 1..Len(s) : MatchAt(Block(name), s, i).ok} IN
    IF hits = {} THEN s
    ELSE LET i == CHOOSE x \in hits : \A y \in hits : x <= y
             m == MatchAt(Block(name), s, i)
         IN  SubSeq(s, 1, i - 1) \o SubSeq(s, m.next, Len(s))

\* lines 82-83
removeBlocks(s, name) == Scan(Block(name), s, 1)

\* the places in s, from i + 2 on and before the first ">", of an `href="`
\* that a link at i can be matched with, and the match for each
LinkAt(s, i, h) ==
    IF ~(h + 1 <= Len(s) /\ s[h] = "href=" /\ s[h + 1] = "\""
           /\ \A n \in (i + 2)..(h - 1) : s[n] # ">")
    THEN NoMatch
    ELSE LET q == IndexOf(s, "\"", h + 2)
             g == IF q = 0 THEN 0 ELSE TagEnd(s, q + 1, 0)
             k == IF g = 0 THEN 0 ELSE FirstAt(CloseOf({"a"}), s, g + 1)
         IN  IF k = 0 THEN NoMatch
             ELSE [ok |-> TRUE, from |-> g + 1, to |-> k - 1, next |-> k + 4]
             @@ [href |-> h + 2, quote |-> q]

\* the places of the `href="` a link at j in s can be matched with
LinkHrefs(s, j) ==
    IF IsAt(OpenOf({"a"}), s, j)
    THEN {h \in (j + 2)..Len(s) : LinkAt(s, j, h).ok}
    ELSE {}

\* the first link of s from i on, `at` its place
FirstLink(s, i) ==
    LET j == CHOOSE x \in i..Len(s) :
                /\ LinkHrefs(s, x) # {}
                /\ \A y \in i..(x - 1) : LinkHrefs(s, y) = {}
        h == CHOOSE x \in LinkHrefs(s, j) : \A y \in LinkHrefs(s, j) : y <= x
    IN  LinkAt(s, j, h) @@ [at |-> j]

RECURSIVE Links(_, _)
\* line 91: /<a[^>]*href="([^"]*)"[^>]*>([\s\S]*?)<\/a>/gi -> '[$2]($1)';
\* `[^>]*` is greedy: the last `href="` that gives a match is taken
Links(s, i) ==
    IF \A j \in i..Len(s) : LinkHrefs(s, j) = {} THEN SubSeq(s, i, Len(s))
    ELSE CHOOSE r \in
           {SubSeq(s, i, m.at - 1)
              \o <<"[">> \o SubSeq(s, m.from, m.to) \o <<"]", "(">>
              \o SubSeq(s, m.href, m.quote - 1) \o <<")">>
              \o Links(s, m.next)
            : m \in {FirstLink(s, i)}} : TRUE

\* mutant: the g flag is left out, the second tag on is left in
stripTags_first(s) ==
    LET hits == {i \in 1..Len(s) : MatchAt(AnyTag, s, i).ok} IN
    IF hits = {} THEN s
    ELSE LET i == CHOOSE x \in hits : \A y \in hits : x <= y
             m == MatchAt(AnyTag, s, i)
         IN  SubSeq(s, 1, i - 1) \o SubSeq(s, m.next, Len(s))

\* line 102: remove remaining HTML tags
stripTags(s) == Scan(AnyTag, s, 1)

RECURSIVE collapseNewlines(_, _)
\* line 111: /\n{3,}/g -> '\n\n'
collapseNewlines(s, i) ==
    IF \A j \in i..(Len(s) - 2) : \E k \in j..(j + 2) : s[k] # "\n"
    THEN SubSeq(s, i, Len(s))
    ELSE CHOOSE r \in
           {SubSeq(s, i, j - 1) \o <<"\n", "\n">>
              \o collapseNewlines(s, CHOOSE e \in (j + 3)..(Len(s) + 1) :
                                        /\ \A k \in j..(e - 1) : s[k] = "\n"
                                        /\ e > Len(s) \/ s[e] # "\n")
            : j \in {CHOOSE x \in i..(Len(s) - 2) :
                        /\ \A k \in x..(x + 2) : s[k] = "\n"
                        /\ \A y \in i..(x - 1) : \E k \in y..(y + 2) : s[k] # "\n"}} : TRUE

\* line 112: String.trim
trim(s) ==
    LET WhiteSpace == {" ", "\n"} IN
    IF \A k \in 1..Len(s) : s[k] \in WhiteSpace THEN << >>
    ELSE LET a == CHOOSE k \in 1..Len(s) :
                     s[k] \notin WhiteSpace /\ \A h \in 1..(k - 1) : s[h] \in WhiteSpace
             b == CHOOSE k \in 1..Len(s) :
                     s[k] \notin WhiteSpace /\ \A h \in (k + 1)..Len(s) : s[h] \in WhiteSpace
         IN  SubSeq(s, a, b)

\* lines 82-112: the n-th replace of the chain, and the trim that ends it
step(n, s) ==
    CASE n = 1 -> removeBlocks(s, "script")
      [] n = 2 -> removeBlocks(s, "style")
      [] n = 3 -> Scan(Paired({"h1"}, <<"#", " ">>, <<"\n", "\n">>), s, 1)
      [] n = 4 -> Scan(Paired({"h2"}, <<"##", " ">>, <<"\n", "\n">>), s, 1)
      [] n = 5 -> Scan(Paired({"h3"}, <<"###", " ">>, <<"\n", "\n">>), s, 1)
      [] n = 6 -> Scan(Paired({"h4"}, <<"####", " ">>, <<"\n", "\n">>), s, 1)
      [] n = 7 -> Scan(Paired({"p"}, << >>, <<"\n", "\n">>), s, 1)
      [] n = 8 -> Links(s, 1)
      [] n = 9 -> Scan(Paired({"strong", "b"}, <<"**">>, <<"**">>), s, 1)
      [] n = 10 -> Scan(Paired({"em", "i"}, <<"*">>, <<"*">>), s, 1)
      [] n = 11 -> Scan(PreCode, s, 1)
      [] n = 12 -> Scan(Paired({"code"}, <<"backtick">>, <<"backtick">>), s, 1)
      [] n = 13 -> Scan(Paired({"li"}, <<"-", " ">>, <<"\n">>), s, 1)
      [] n = 14 -> Scan(ListTag, s, 1)
      [] n = 15 -> stripTags(s)
      [] n = 16 -> Scan(Entity("nbsp;", " "), s, 1)
      [] n = 17 -> Scan(Entity("amp;", "&"), s, 1)
      [] n = 18 -> Scan(Entity("lt;", "<"), s, 1)
      [] n = 19 -> Scan(Entity("gt;", ">"), s, 1)
      [] n = 20 -> Scan(Entity("quot;", "\""), s, 1)
      [] n = 21 -> Scan(Entity("#39;", "'"), s, 1)
      [] n = 22 -> collapseNewlines(s, 1)
      [] OTHER -> trim(s)

RECURSIVE chain(_, _, _)
\* the replaces a to b of the chain, one after the other: t is what the first
\* half has made of s
chain(a, b, s) ==
    IF a = b THEN step(a, s)
    ELSE CHOOSE r \in {chain((a + b) \div 2 + 1, b, t) : t \in {chain(a, (a + b) \div 2, s)}} : TRUE

\* lines 79-113
htmlToMarkdown(html) == chain(1, 23, html)

\* the pages are made of up to MaxPieces pieces
MaxPieces == 3

\* a script block whose text looks like a heading, the tags of one on their
\* own, a closing tag with a blank in it, a heading, a link, an opening
\* paragraph tag, a word, an entity, the rest of one
Pieces ==
    {<<"<", "script", ">", "<", "h1", ">", "x", "<", "/", "h1", ">", "<", "/", "script", ">">>,
     <<"<", "script", ">">>,
     <<"<", "/", "script", ">">>,
     <<"<", "/", "script", " ", ">">>,
     <<"<", "h1", ">", "y", "<", "/", "h1", ">">>,
     <<"<", "a", " ", "href=", "\"", "u", "\"", ">", "w", "<", "/", "a", ">">>,
     <<"<", "p", ">">>,
     <<"z">>,
     <<"&", "amp;">>,
     <<"amp;">>}

RECURSIVE Flat(_)
Flat(pieces) == IF pieces = << >> THEN << >> ELSE Head(pieces) \o Flat(Tail(pieces))

Pages == {Flat(pieces) : pieces \in UNION {[1..n -> Pieces] : n \in 0..MaxPieces}}

\* a page is at hand
InitMarkdown ==
    /\ InitService
    /\ globalCounter.count = 0
    /\ envelope = NoEnvelope
    /\ \E html \in Pages : page = [NoPage EXCEPT !.html = html]

\* htmlToMarkdown(html)
Convert ==
    /\ page.converted = 0
    /\ page.upstream.kind = "none"
    /\ page' = [page EXCEPT !.converted = 1, !.once = htmlToMarkdown(page.html)]
    /\ UNCHANGED <<now, inv, modelsCache, envelope>>
    /\ UNCHANGED chatVars

\* htmlToMarkdown of what htmlToMarkdown has returned
ConvertAgain ==
    /\ page.converted = 1
    /\ page' = [page EXCEPT !.converted = 2, !.twice = htmlToMarkdown(page.once)]
    /\ UNCHANGED <<now, inv, modelsCache, envelope>>
    /\ UNCHANGED chatVars

NextMarkdown ==
    \/ Convert
    \/ ConvertAgain

SpecMarkdown == InitMarkdown /\ [][NextMarkdown]_vars

----------------------------------------------------------------------------
(* Quota Guard *)

\* a step in which isRateLimited was called
Called == ret'.seq # ret.seq

\* the global limit is reached at a call made now: the counter is at maxGlobal
\* and its window has not expired
GlobalCeilingHit ==
    /\ globalCounter.count >= maxGlobal
    /\ now <= globalCounter.resetTime

RecordsInRange ==
    \A k \in DOMAIN rateLimitMap :
        /\ rateLimitMap[k].count >= 1
        /\ rateLimitMap[k].count <= maxPerIP

RecordCountDropsOnlyByReplacement ==
    \A k \in DOMAIN rateLimitMap \cap DOMAIN rateLimitMap' :
        rateLimitMap'[k].count < rateLimitMap[k].count =>
            /\ rateLimitMap[k].resetTime < now
            /\ rateLimitMap'[k] = [count |-> 1, resetTime |-> now + windowMs]

\* C1: every stored record has 1 <= count <= 5 (maxPerIP), and a record's count
\* goes down only when the record is replaced by a fresh one (count 1, window
\* from now) after its window expired.
C1_PerClientCeiling ==
    /\ []RecordsInRange
    /\ [][RecordCountDropsOnlyByReplacement]_vars

\* a call for an IP whose record is at the ceiling was denied by the per-IP limit
C1_Witness ==
    /\ ret.ip \in DOMAIN rateLimitMap
    /\ rateLimitMap[ret.ip].count = maxPerIP
    /\ ret.limited /\ ret.reason = NoReason
    /\ ret.prevCount = maxPerIP

GlobalInRange ==
    /\ globalCounter.count >= 0
    /\ globalCounter.count <= maxGlobal

GlobalDropsOnlyByReset ==
    globalCounter'.count < globalCounter.count =>
        /\ globalCounter.resetTime < now
        /\ globalCounter'.resetTime = now + windowMs
        \* reset to 0, then counted up by the resetting call if it was allowed
        /\ globalCounter'.count = IF ret'.limited THEN 0 ELSE 1

\* C2: globalCounter.count stays within 0..200 (maxGlobal), and it goes down
\* only by the reset to 0 made by a call that finds the window expired.
C2_GlobalCeiling ==
    /\ []GlobalInRange
    /\ [][GlobalDropsOnlyByReset]_vars

\* the call that took the last unit of the global window was allowed
C2_Witness ==
    /\ globalCounter.count = maxGlobal
    /\ ret.ip \in Keys /\ ~ret.limited
    /\ now <= globalCounter.resetTime

\* C3: a call made while the global counter is at the limit and its window has
\* not expired is denied with remaining 0, resetIn = resetTime - now and the
\* daily-limit reason, for every IP, and leaves every record as it was.
C3_GlobalCeilingDominates ==
    [][(Called /\ GlobalCeilingHit) =>
          /\ ret'.limited
          /\ ret'.remaining = 0
          /\ ret'.resetIn = globalCounter.resetTime - now
          /\ ret'.reason = DailyLimitReason
          /\ rateLimitMap' = rateLimitMap]_vars

\* an IP with no record was denied by the global limit, and still has none
C3_Witness ==
    /\ ret.limited /\ ret.reason = DailyLimitReason
    /\ ret.prevCount = 0
    /\ ret.ip \in Keys /\ ret.ip \notin DOMAIN rateLimitMap

\* C4: when the clock is past the resetTime of an IP's record, the next call for
\* that IP that the global limit lets through is allowed and leaves the record
\* with count 1 and a window starting now, whatever the count was.
C4_PerClientWindowExpiry ==
    [][\A ip \in DOMAIN rateLimitMap :
          (/\ Called /\ ret'.ip = ip
           /\ rateLimitMap[ip].resetTime < now
           /\ ~(globalCounter.count >= maxGlobal /\ now <= globalCounter.resetTime)) =>
              /\ ~ret'.limited
              /\ ip \in DOMAIN rateLimitMap'
              /\ rateLimitMap'[ip] = [count |-> 1, resetTime |-> now + windowMs]]_vars

\* a record that stood at the ceiling and had expired was replaced
C4_Witness ==
    /\ ret.prevExpired /\ ret.prevCount = maxPerIP
    /\ ~ret.limited
    /\ ret.ip \in DOMAIN rateLimitMap /\ rateLimitMap[ret.ip].count = 1

----------------------------------------------------------------------------
(* Chat route and Model Gateway *)

\* a step of request r
Steps(r) == req'[r] # req[r]

QuotaCheckedOncePerKeylessBody ==
    \A r \in Reqs :
        req[r].checks = IF req[r].parsed /\ ~req[r].usable THEN 1 ELSE 0

KeyedRequestLeavesQuotaAlone ==
    \A r \in Reqs :
        (Steps(r) /\ (req[r].usable \/ req'[r].usable)) =>
            /\ globalCounter' = globalCounter
            /\ rateLimitMap' = rateLimitMap

\* C5: a chat request whose body carries a usable credential (apiKey longer than
\* MinKeyLength and an accountId) never calls isRateLimited and none of its steps
\* changes globalCounter or rateLimitMap, whatever its outcome; a chat request
\* whose body was read and carries none has called isRateLimited exactly once
\* by the time its fields are validated, and never again.
C5_CredentialBypass ==
    /\ []QuotaCheckedOncePerKeylessBody
    /\ [][KeyedRequestLeavesQuotaAlone]_vars

\* a request with a usable credential ended in an error of its REST call while
\* a request without one was answered for its missing fields after its one call
C5_Witness ==
    \E r, r2 \in Reqs :
        /\ req[r].usable /\ req[r].pc = "done" /\ req[r].resp.status = 401
        /\ req[r].checks = 0
        /\ ~req[r2].usable /\ req[r2].resp.errorType = "VALIDATION"
        /\ req[r2].checks = 1

\* the place, in the window of ip's record, of a call made now that gets past
\* the global limit
PlaceInWindow(ip) ==
    IF ip \in DOMAIN rateLimitMap /\ now <= rateLimitMap[ip].resetTime
    THEN ord[ip] + 1
    ELSE 1

CeilSeconds(ms) == IF ms % 1000 = 0 THEN ms \div 1000 ELSE ms \div 1000 + 1

\* C6: of the chat requests without credential of one IP in one window of its
\* record, the global limit not reached, the first 5 pass the rate limit and the
\* 6th and later ones are answered 429 with errorType RATE_LIMIT and Retry-After
\* ceil((resetTime - now) / 1000), with no page fetch and no model call.
C6_ScenarioB ==
    [][\A r \in Reqs :
          (/\ req[r].pc = "body"
           /\ req'[r].parsed /\ ~req'[r].usable
           /\ ~GlobalCeilingHit) =>
              LET ip == req'[r].ip
                  q == req'[r]
              IN  /\ PlaceInWindow(ip) <= maxPerIP => q.resp.status # 429
                  /\ PlaceInWindow(ip) > maxPerIP =>
                        /\ q.pc = "done"
                        /\ q.resp.status = 429
                        /\ q.resp.errorType = "RATE_LIMIT"
                        /\ q.resp.retryAfter =
                               CeilSeconds(rateLimitMap[ip].resetTime - now)
                        /\ q.pageFetches = 0 /\ q.aiRuns = 0 /\ q.credRuns = 0]_vars

\* the 6th request of a window was answered 429, a part of a second into the window
C6_Witness ==
    \E r \in Reqs :
        /\ req[r].pc = "done" /\ req[r].resp.status = 429
        /\ ord[req[r].ip] = maxPerIP + 1
        /\ (rateLimitMap[req[r].ip].resetTime - now) % 1000 # 0
        /\ req[r].resp.retryAfter = CeilSeconds(rateLimitMap[req[r].ip].resetTime - now)
        /\ globalCounter.count < maxGlobal

ManagedRunsBounded ==
    \A r \in Reqs :
        /\ req[r].aiRuns <= MAX_RETRIES
        /\ (req[r].pc = "done" /\ ~req[r].hasValidApiKey /\ req[r].resp.status = 200) =>
              \E k \in 1..MAX_RETRIES :
                  /\ req[r].aiRuns = k
                  /\ req[r].backend \in {"text", "empty"}
                  /\ req[r].resp.response =
                         IF req[r].backend = "text" THEN ReplyOf(k) ELSE NoResponseGenerated
                  /\ req[r].lastError = IF k = 1 THEN "none" ELSE ErrorOf(k - 1)

NothingAfterTheAnswer ==
    \A r \in Reqs :
        req[r].pc = "done" => req'[r] = req[r] \/ req'[r] = Idle

\* C7: chatWithAI calls ai.run at most 3 times; when call k is the first to
\* succeed the answer is the text of call k (or the fixed text when it has none),
\* calls 1..k-1 having failed, and no call follows.
C7_ManagedRetryThenSucceed ==
    /\ []ManagedRunsBounded
    /\ [][NothingAfterTheAnswer]_vars

\* two failures, then the third call's text is the answer
C7_Witness ==
    \E r \in Reqs :
        /\ req[r].pc = "done" /\ req[r].resp.status = 200
        /\ req[r].aiRuns = 3 /\ req[r].resp.response = ReplyOf(3)
        /\ req[r].lastError = ErrorOf(2)

\* C8: when the last ai.run of a request failed and the request is answered, 3
\* calls were made and the answer is 500 AI_ERROR with the third call's error.
C8_ManagedExhaustion ==
    \A r \in Reqs :
        (req[r].pc = "done" /\ req[r].backend = "throw" /\ ~req[r].hasValidApiKey) =>
            /\ req[r].aiRuns = MAX_RETRIES
            /\ req[r].resp.status = 500
            /\ req[r].resp.errorType = "AI_ERROR"
            /\ req[r].resp.error = <<"AI service error: ", ErrorOf(MAX_RETRIES)>>
            /\ req[r].resp.response = "none"

\* three failed calls were answered with an AI_ERROR
C8_Witness ==
    \E r \in Reqs :
        /\ req[r].pc = "done" /\ req[r].resp.errorType = "AI_ERROR"
        /\ req[r].aiRuns = MAX_RETRIES /\ req[r].checks = 1

CredRunsAtMostOnce ==
    \A r \in Reqs :
        /\ req[r].credRuns <= 1
        /\ req[r].hasValidApiKey => req[r].aiRuns = 0
        /\ (req[r].pc = "done" /\ req[r].hasValidApiKey /\ req[r].backend # "none") =>
              req[r].credRuns = 1

CredRunAnswersAtOnce ==
    \A r \in Reqs :
        (req[r].pc = "credRun" /\ Steps(r)) =>
            /\ req'[r].pc = "done"
            /\ req'[r].credRuns = 1
            /\ req'[r].backend \in {"text", "empty"} <=> req'[r].resp.status = 200
            /\ req'[r].backend \notin {"text", "empty"} =>
                  /\ req'[r].resp.errorType # "none"
                  /\ req'[r].resp.error = <<"", credError(req'[r].backend)>>

\* C9: chatWithUserApiKey makes one call of the run endpoint per chat request and
\* none after it; a call that fails (fetch rejects, status not ok, success false)
\* is answered with its error in the step in which it settles.
C9_CredentialOneShot ==
    /\ []CredRunsAtMostOnce
    /\ [][CredRunAnswersAtOnce]_vars

\* the one call came back 500 and the request was answered with an error
C9_Witness ==
    \E r \in Reqs :
        /\ req[r].pc = "done" /\ req[r].hasValidApiKey
        /\ req[r].backend = "500" /\ req[r].credRuns = 1
        /\ req[r].resp.status # 200

\* C16: a chat request whose page fetch failed (status not ok, or fetch
\* rejected) is answered FETCH_ERROR with no call of either chat function, and
\* the content handed to a chat function never starts with an error marker.
C16_FetchErrorShortCircuit ==
    \A r \in Reqs :
        /\ req[r].page \in {"status", "throw"} =>
              /\ req[r].pc = "done"
              /\ req[r].resp.errorType = "FETCH_ERROR"
              /\ req[r].resp.status = 400
              /\ req[r].aiRuns = 0 /\ req[r].credRuns = 0
              /\ req[r].prompt = << >>
        /\ req[r].aiRuns + req[r].credRuns > 0 =>
              /\ req[r].prompt # << >>
              /\ req[r].prompt[1] \notin {"Error:", "Error fetching"}

\* a request whose page fetch was rejected was answered FETCH_ERROR while
\* another request's page went to a chat function
C16_Witness ==
    \E r, r2 \in Reqs :
        /\ req[r].page = "throw" /\ req[r].resp.errorType = "FETCH_ERROR"
        /\ req[r].aiRuns = 0 /\ req[r].credRuns = 0
        /\ req[r2].page = "ok" /\ req[r2].credRuns = 1

\* the period of five minutes the claims speak of, in milliseconds
FiveMinutes == 5 * 60 * 1000

\* a step in which the models route calls fetchCloudflareModels
ListModelsCalled(r) == inv[r].pc = "idle" /\ inv'[r].route = "models"

\* C14: a listModels call made less than 5 minutes after the cache timestamp
\* returns the cached catalog and issues no backend call; a call made 5 minutes
\* or more after the timestamp issues a backend fetch.
C14_CatalogFreshness ==
    [][\A r \in Reqs : ListModelsCalled(r) /\ modelsCache.filled =>
          IF now - modelsCache.timestamp < FiveMinutes
          THEN /\ inv'[r].pc = "done"
               /\ inv'[r].resp.models = modelsCache.models
               /\ inv'[r].calls = << >>
               /\ modelsCache' = modelsCache
          ELSE /\ inv'[r].pc = "modelsFetch"
               /\ inv'[r].calls = <<"catalog">>]_vars

\* a call exactly five minutes after the fill is waiting for the backend,
\* while the cache still holds that fill
C14_Witness ==
    \E r \in Reqs :
        /\ inv[r].pc = "modelsFetch"
        /\ modelsCache.filled /\ modelsCache.models # << >>
        /\ now - modelsCache.timestamp = FiveMinutes

\* C15: whenever the catalog fetch fails (rejected fetch, status not ok, body
\* that is not JSON or not of the expected shape) the models route answers
\* with the fallback list, 4 free descriptors followed by 6 paid ones; and
\* every answer of the models route is HTTP 200 with a list.
C15_CatalogNeverFails ==
    \A r \in Reqs : inv[r].route = "models" /\ inv[r].pc = "done" =>
        /\ inv[r].resp.status = 200
        /\ inv[r].resp.kind = "models"
        /\ inv[r].outcome \in {"throw", "status", "badJson", "badShape"} =>
              /\ inv[r].resp.models = FallbackModels
              /\ Len(inv[r].resp.models) = 10
              /\ \A i \in 1..4 : inv[r].resp.models[i].free
              /\ \A i \in 5..10 : ~inv[r].resp.models[i].free

\* the backend answered with a status that is not ok, and the models route
\* answered 200 with the fallback list
C15_Witness ==
    \E r \in Reqs :
        /\ inv[r].pc = "done" /\ inv[r].outcome = "status"
        /\ inv[r].resp.status = 200 /\ Len(inv[r].resp.models) = 10

\* messages is the envelope the claim describes for the arguments in `envelope`
IsEnvelope(messages) ==
    LET n == Len(envelope.chatHistory)
        k == Min(n, 6)
    IN  /\ Len(messages) = k + 2
        /\ messages[1].role = "system"
        /\ \E i, j \in 1..Len(messages[1].content) :
              /\ messages[1].content[i] = envelope.websiteUrl
              /\ messages[1].content[j] = envelope.websiteContent
        /\ \A i \in 1..k : messages[i + 1] = envelope.chatHistory[n - k + i]
        /\ messages[k + 2] = [role |-> "user", content |-> <<envelope.userMessage>>]

\* C17: for a history of n turns each path sends one system turn holding the
\* page URL and content, then the last min(n, 6) turns of the history in their
\* order, then the new user turn, min(n, 6) + 2 turns in all; and the two
\* paths send the same messages for the same arguments.
C17_MessageEnvelope ==
    /\ envelope.managed # << >> => IsEnvelope(envelope.managed)
    /\ envelope.credential # << >> => IsEnvelope(envelope.credential)
    /\ envelope.managed # << >> /\ envelope.credential # << >> =>
          envelope.managed = envelope.credential

\* both paths have built their messages of a history of more than six turns
C17_Witness ==
    /\ Len(envelope.chatHistory) > 6
    /\ Len(envelope.managed) = 6 + 2
    /\ Len(envelope.credential) = 6 + 2
    /\ envelope.managed[2] = envelope.chatHistory[Len(envelope.chatHistory) - 6 + 1]

\* a request to the service's own host
Request(r, method, path) ==
    inv[r].host = "tomcp.org" /\ inv[r].method = method /\ inv[r].path = path

\* the body of the validation request of slot r was read and held a key of
\* the lengths in S
KeyRead(r, S) ==
    inv[r].route = "validate" /\ inv[r].bodyShape = "object" /\ inv[r].apiKeyLength \in S

\* a key that is missing or too short is refused at once, any other key goes
\* to validateApiKey and its result is the answer
ValidationHandlerServes(r) ==
    /\ KeyRead(r, 0..9) =>
          /\ inv[r].pc = "done"
          /\ inv[r].resp.status = 400
          /\ inv[r].resp.valid = "false" /\ inv[r].resp.error # "none"
          /\ inv[r].calls = << >>
    /\ KeyRead(r, 10..40) =>
          /\ inv[r].calls # << >> /\ inv[r].calls[1] = "verify"
          /\ inv[r].pc = "done" =>
                /\ inv[r].resp.status = 200
                /\ inv[r].resp.kind = "validation"
                /\ inv[r].resp.valid \in {"true", "false"}
                /\ Len(inv[r].settled) = Len(inv[r].calls)

Passed(response) == response.status = 200 /\ response.body = "successTrue"

IsPrefix(a, b) == Len(a) <= Len(b) /\ a = SubSeq(b, 1, Len(a))

\* C12: validateApiKey calls token-verify, then list-accounts, then the
\* capability probe, each only after the one before it has passed: no
\* list-accounts after a failed token-verify, no probe unless list-accounts
\* returned at least one account; and a call that passed is followed by the next.
C12_ValidationChainOrder ==
    \A r \in Reqs : inv[r].route = "validate" =>
        /\ IsPrefix(inv[r].calls, <<"verify", "accounts", "probe">>)
        /\ Len(inv[r].calls) - 1 <= Len(inv[r].settled)
        /\ Len(inv[r].settled) <= Len(inv[r].calls)
        /\ Len(inv[r].calls) >= 2 <=>
              Len(inv[r].settled) >= 1 /\ Passed(inv[r].settled[1])
        /\ Len(inv[r].calls) >= 3 <=>
              /\ Len(inv[r].settled) >= 2
              /\ Passed(inv[r].settled[1])
              /\ Passed(inv[r].settled[2])
              /\ Len(inv[r].settled[2].result) >= 1

\* the chain stopped at a list-accounts that returned no account
C12_Witness ==
    \E r \in Reqs :
        /\ inv[r].pc = "done"
        /\ inv[r].calls = <<"verify", "accounts">>
        /\ Passed(inv[r].settled[2]) /\ inv[r].settled[2].result = << >>

\* C13: validateApiKey returns valid:true exactly when all three checks
\* passed, with the id of the first account list-accounts returned; every
\* other outcome, a rejected fetch or unreadable body included, is valid:false
\* with an error and no account id; and nothing is thrown to the route, whose
\* answer is then status 200.
C13_ValidOnlyOnFullSuccess ==
    \A r \in Reqs : inv[r].route = "validate" /\ inv[r].pc = "done" /\ inv[r].calls # << >> =>
        LET allPassed == /\ Len(inv[r].settled) = 3
                         /\ Passed(inv[r].settled[1])
                         /\ Passed(inv[r].settled[2])
                         /\ Len(inv[r].settled[2].result) >= 1
                         /\ inv[r].settled[3].status \in 200..299
        IN  /\ inv[r].resp.status = 200
            /\ inv[r].resp.kind = "validation"
            /\ inv[r].resp.valid = (IF allPassed THEN "true" ELSE "false")
            /\ allPassed => /\ inv[r].resp.accountId = inv[r].settled[2].result[1]
                             /\ inv[r].resp.error = "none"
            /\ ~allPassed => /\ inv[r].resp.accountId = "none"
                              /\ inv[r].resp.error # "none"

\* all three checks passed and the answer carries the first account's id
C13_Witness ==
    \E r \in Reqs :
        /\ inv[r].pc = "done" /\ Len(inv[r].settled) = 3
        /\ Len(inv[r].settled[2].result) = 2
        /\ inv[r].resp.valid = "true"
        /\ inv[r].resp.accountId = inv[r].settled[2].result[1]

\* the chat request of slot r was answered with a failure
ChatFailed(r) == req[r].pc = "done" /\ req[r].resp.status # 200
\* the request of slot r to another route was answered with a failure
OtherFailed(r) ==
    /\ inv[r].pc = "done"
    /\ inv[r].resp.status >= 400 \/ inv[r].resp.valid = "false"
\* a chat response holds an error text
HasErrorText(resp) == resp.error[1] # "" \/ resp.error[2] \notin {"", "none"}

ErrorTypes == {"RATE_LIMIT", "VALIDATION", "FETCH_ERROR", "API_KEY_ERROR", "AI_ERROR",
               "CONFIG_ERROR", "UNKNOWN"}

\* every failure of the chat route is a JSON body with an error text and one
\* of the seven errorType values
ChatFailuresAreTyped ==
    \A r \in Reqs : ChatFailed(r) =>
        /\ req[r].resp.json
        /\ HasErrorText(req[r].resp)
        /\ req[r].resp.errorType \in ErrorTypes

\* C18 as stated: every failure response of the service, of the chat route
\* and of the other routes (credential validation, homepage or asset fetch),
\* is a JSON body with an error message and an errorType.
C18_EveryFailureTyped ==
    /\ ChatFailuresAreTyped
    /\ \A r \in Reqs : OtherFailed(r) /\ inv[r].route \in {"validate", "homepage", "static"} =>
          /\ inv[r].resp.json
          /\ inv[r].resp.error # "none"
          /\ inv[r].resp.errorType # "none"

\* C18: every failure response of the chat route is a JSON body with an error
\* message and an errorType; a failed credential validation is a JSON body
\* with valid false and an error message but no errorType, and a failed
\* homepage fetch is answered 500 with a plain text and no errorType.
C18_ChatFailuresTyped ==
    /\ ChatFailuresAreTyped
    /\ \A r \in Reqs : OtherFailed(r) /\ inv[r].route = "validate" =>
          /\ inv[r].resp.json
          /\ inv[r].resp.valid = "false" /\ inv[r].resp.error # "none"
          /\ inv[r].resp.errorType = "none"
    /\ \A r \in Reqs : inv[r].pc = "done" /\ inv[r].route = "homepage"
                            /\ inv[r].outcome # "ok" =>
          /\ inv[r].resp.status = 500
          /\ ~inv[r].resp.json
          /\ inv[r].resp.error = "Error loading page"
          /\ inv[r].resp.errorType = "none"

\* the managed path gave up after its retries and the chat was answered with
\* a typed failure
C18_Witness ==
    \E r \in Reqs :
        /\ ChatFailed(r)
        /\ req[r].resp.errorType = "AI_ERROR"
        /\ HasErrorText(req[r].resp)

\* the request of slot r is an OPTIONS request to the service's own host
Preflight(r) == inv[r].host = "tomcp.org" /\ inv[r].method = "OPTIONS"

\* C19: every response of every route carries the cross-origin headers, and
\* an OPTIONS request to any path is answered at once with an empty success
\* response carrying them, with no quota check and no outbound call.
C19_CorsOnEveryResponse ==
    \A r \in Reqs :
        /\ req[r].pc = "done" => req[r].resp.cors
        /\ inv[r].pc = "done" => inv[r].resp.cors
        /\ Preflight(r) =>
              /\ inv[r].pc = "done"
              /\ inv[r].resp.status = 200 /\ inv[r].resp.kind = "empty"
              /\ inv[r].calls = << >>
              /\ req[r].pc = "idle"

\* a body is read as an MCP request
McpRequest(r) == inv[r].route = "mcp" /\ inv[r].bodyShape = "object"

\* the answer to slot r is the JSON-RPC error -32601 with the id of the
\* request, and nothing was fetched
MethodNotFound(r) ==
    /\ inv[r].pc = "done"
    /\ inv[r].resp.kind = "rpcError"
    /\ inv[r].resp.code = -32601
    /\ inv[r].resp.id = inv[r].id
    /\ inv[r].calls = << >>

\* C20: an MCP request whose method is none of initialize,
\* notifications/initialized, tools/list, tools/call, and a tools/call whose
\* tool is neither fetch_page nor search, are answered with the JSON-RPC error
\* -32601 and the id of the request, without an outbound fetch.
C20_McpNotFound ==
    \A r \in Reqs : McpRequest(r) =>
        /\ inv[r].rpcMethod \notin {"initialize", "notifications/initialized",
                                    "tools/list", "tools/call"} => MethodNotFound(r)
        /\ inv[r].rpcMethod = "tools/call"
              /\ inv[r].toolName \notin {"fetch_page", "search"} => MethodNotFound(r)

\* a call of an unknown tool was answered -32601 with the id of the request
C20_Witness ==
    \E r \in Reqs :
        /\ McpRequest(r)
        /\ inv[r].rpcMethod = "tools/call" /\ inv[r].toolName = "delete_page"
        /\ inv[r].id = "abc" /\ inv[r].resp.id = "abc" /\ inv[r].resp.code = -32601

\* C21: a POST on the MCP route whose body is not parseable JSON is answered
\* with the JSON-RPC error -32700 and id null, with HTTP status 200, and
\* nothing else is done for the request: no outbound fetch, no quota check.
ParseErrorAnswered ==
    \A r \in Reqs : inv[r].route = "mcp" /\ inv[r].bodyShape = "unparseable" =>
        /\ inv[r].pc = "done"
        /\ inv[r].resp.status = 200
        /\ inv[r].resp.json
        /\ inv[r].resp.kind = "rpcError"
        /\ inv[r].resp.code = -32700
        /\ inv[r].resp.id = "null"
        /\ inv[r].calls = << >>
        /\ req[r].pc = "idle"

\* the step that finds the body unparseable touches nothing but the request
ParseErrorStepIsBare ==
    \A r \in Reqs : inv[r].pc = "mcpBody" /\ inv'[r].bodyShape = "unparseable" =>
        UNCHANGED <<now, globalCounter, rateLimitMap, ret, modelsCache>>

C21_McpParseError == []ParseErrorAnswered /\ [][ParseErrorStepIsBare]_vars

\* a POST to /example.com with an unparseable body was answered -32700
C21_Witness ==
    \E r \in Reqs :
        /\ Request(r, "POST", "example.com")
        /\ inv[r].bodyShape = "unparseable"
        /\ inv[r].resp.code = -32700 /\ inv[r].resp.status = 200

\* C23: a GET on the empty path serves the homepage, while a POST on the
\* empty path is handled as an MCP JSON-RPC request and answered with a
\* JSON-RPC envelope, not with the homepage.
C23_EmptyPathByMethod ==
    \A r \in Reqs :
        /\ Request(r, "GET", "") => inv[r].route = "homepage"
        /\ Request(r, "POST", "") =>
              /\ inv[r].route = "mcp"
              /\ inv[r].pc = "done" => inv[r].resp.kind \in {"rpcResult", "rpcError"}

\* slot r holds a tools/call of fetch_page whose path argument is a string
\* or absent
FetchPageCall(r) ==
    /\ McpRequest(r)
    /\ inv[r].rpcMethod = "tools/call" /\ inv[r].toolName = "fetch_page"
    /\ inv[r].pagePath.type \in {"absent", "string"}

\* the URL the claim gives for a base and a path
ResolvedUrl(base, p) ==
    IF p = << >> THEN base
    ELSE IF p[1] # "/" THEN base \o <<"/">> \o p
    ELSE base \o p

\* C22: fetch_page fetches the target URL followed by the caller's path, with
\* a '/' put between them exactly when the path is not empty and does not
\* start with '/', and the bare target URL for an empty path; every outcome
\* of the fetch is answered with a JSON-RPC result holding a text, never with
\* a JSON-RPC error, and the text of a fetched page is its markdown cut to
\* 50,000 characters.
C22_FetchPage ==
    \A r \in Reqs : FetchPageCall(r) =>
        /\ inv[r].calls = <<"page">>
        /\ inv[r].fullUrl = ResolvedUrl(inv[r].targetUrl, inv[r].pagePath.chars)
        /\ inv[r].pc = "done" =>
              /\ inv[r].outcome \in FetchOutcomes
              /\ inv[r].resp.kind = "rpcResult"
              /\ inv[r].resp.id = inv[r].id
              /\ inv[r].resp.text.head # "none"
              /\ inv[r].resp.text.length <= 50000
              /\ inv[r].outcome = "ok" =>
                    inv[r].resp.text.length = Min(inv[r].pageLength, 50000)

\* a page of 50,001 characters was fetched for the path docs/api, which got
\* its slash, and the result holds 50,000 characters
C22_Witness ==
    \E r \in Reqs :
        /\ FetchPageCall(r)
        /\ inv[r].pagePath.chars = <<"docs", "/", "api">>
        /\ inv[r].fullUrl = <<"https://", "example.com", "/", "docs", "/", "api">>
        /\ inv[r].pageLength > 50000 /\ inv[r].resp.text.length = 50000

\* a step in which isRateLimited is called
CheckCall == ret'.seq # ret.seq

\* C28 as stated: on every call with now >= globalCounter.resetTime, the instant
\* of the reset itself included, the global counter is reset to count 0 and
\* resetTime now + 24h before the global test, so that the call is not denied
\* by the global limit.
C28_GlobalResetAtOrAfter ==
    [][CheckCall /\ now >= globalCounter.resetTime =>
          /\ globalCounter'.resetTime = now + 24 * 60 * 60 * 1000
          /\ globalCounter'.count <= 1
          /\ ret'.reason # DailyLimitReason]_vars

\* C28, amended: on every call with now > globalCounter.resetTime the global
\* counter is reset to count 0 and resetTime now + 24h before the global test,
\* so that the call is not denied by the global limit; a call no later than
\* resetTime, the instant of resetTime itself included, leaves resetTime as it is and
\* is denied by the global limit when the count is at 200.
C28_GlobalResetAfter ==
    [][CheckCall =>
          /\ now > globalCounter.resetTime =>
                /\ globalCounter'.resetTime = now + 24 * 60 * 60 * 1000
                /\ globalCounter'.count <= 1
                /\ ret'.reason # DailyLimitReason
          /\ now <= globalCounter.resetTime =>
                /\ globalCounter'.resetTime = globalCounter.resetTime
                /\ globalCounter.count >= 200 =>
                      /\ ret'.reason = DailyLimitReason
                      /\ ret'.limited
                      /\ globalCounter'.count = globalCounter.count]_vars

\* a call has found the global window over and has opened a new one
C28_Witness ==
    /\ ret.who = "direct"
    /\ now > 24 * 60 * 60 * 1000
    /\ globalCounter.resetTime = now + 24 * 60 * 60 * 1000
    /\ globalCounter.count = 1
    /\ ~ret.limited

\* C29: a step changes globalCounter.resetTime, or the resetTime of a client's
\* record, or makes a record for a client, only in a call of isRateLimited, and the
\* new resetTime is now + 24h, later than now, whatever the old one was; a call
\* that finds the global window or the client's window over does so; every
\* other step leaves each resetTime as it is.
C29_ResetAnchoredAtNow ==
    [][/\ globalCounter'.resetTime # globalCounter.resetTime =>
             /\ CheckCall
             /\ globalCounter'.resetTime = now + 24 * 60 * 60 * 1000
             /\ globalCounter'.resetTime > now
       /\ CheckCall /\ globalCounter.resetTime < now =>
             globalCounter'.resetTime = now + 24 * 60 * 60 * 1000
       /\ \A ip \in DOMAIN rateLimitMap' :
             \/ /\ ip \in DOMAIN rateLimitMap
                /\ rateLimitMap'[ip].resetTime = rateLimitMap[ip].resetTime
                /\ ~(CheckCall /\ ret'.ip = ip /\ ret'.reason # DailyLimitReason
                        /\ rateLimitMap[ip].resetTime < now)
             \/ /\ CheckCall
                /\ ret'.ip = ip
                /\ rateLimitMap'[ip].resetTime = now + 24 * 60 * 60 * 1000
                /\ rateLimitMap'[ip].resetTime > now
                /\ rateLimitMap'[ip].count = 1]_vars

\* in a later window, a call has replaced the global counter and the record of
\* its client, both anchored at the instant of the call
C29_Witness ==
    /\ ret.who = "direct"
    /\ ret.prevExpired
    /\ now > 24 * 60 * 60 * 1000
    /\ globalCounter.resetTime = now + 24 * 60 * 60 * 1000
    /\ rateLimitMap[ret.ip].resetTime = now + 24 * 60 * 60 * 1000

\* C30: a call that allows returns remaining = 5 - the count of the client's
\* record after the call, which is 4 when the record was made or replaced by the
\* call and 0 on the 5th call allowed in a window; a call that denies returns
\* remaining 0; remaining is never negative.
C30_RemainingQuota ==
    ret.ip # "none" =>
        /\ ret.remaining >= 0
        /\ ret.limited => ret.remaining = 0
        /\ ~ret.limited =>
              /\ ret.ip \in DOMAIN rateLimitMap
              /\ ret.remaining = 5 - rateLimitMap[ret.ip].count
              /\ (ret.prevCount = 0 \/ ret.prevExpired) => ret.remaining = 4
              /\ rateLimitMap[ret.ip].count = 5 => ret.remaining = 0

\* the 5th call of a client in its window has been allowed
C30_Witness ==
    /\ ret.who = "direct"
    /\ ~ret.limited
    /\ ret.prevCount = 4
    /\ ~ret.prevExpired
    /\ rateLimitMap[ret.ip].count = 5
    /\ ret.remaining = 0

\* the step runs the quota check of chat request r
QuotaChecked(r) == req'[r].checks = req[r].checks + 1

\* the counts a call made now goes by: those of the running windows, 0 for a
\* window that is over or a record that is not there
RunningCount(ip) ==
    IF ip \in DOMAIN rateLimitMap /\ rateLimitMap[ip].resetTime >= now
    THEN rateLimitMap[ip].count ELSE 0
RunningGlobal == IF globalCounter.resetTime >= now THEN globalCounter.count ELSE 0

\* the check of r is one step: it is the only check of the step, it leaves r
\* answered with 429 or admitted, and an admission has counted r as the next of
\* its client and the next of the global window, both below their limits before
QuotaCheckIsOneStep ==
    \A r \in Reqs : QuotaChecked(r) =>
        /\ \A other \in Reqs \ {r} : req'[other] = req[other]
        /\ ret'.who = r /\ ret'.seq # ret.seq
        /\ req'[r].pc # "body"
        /\ ret'.limited <=> (req'[r].pc = "done" /\ req'[r].resp.status = 429)
        /\ ~ret'.limited =>
              /\ RunningCount(req'[r].ip) < 5
              /\ RunningGlobal < 200
              /\ req'[r].ip \in DOMAIN rateLimitMap'
              /\ rateLimitMap'[req'[r].ip].count = RunningCount(req'[r].ip) + 1
              /\ globalCounter'.count = RunningGlobal + 1
        /\ ret'.limited =>
              /\ RunningCount(req'[r].ip) >= 5 \/ RunningGlobal >= 200
              /\ globalCounter'.count = RunningGlobal
              /\ RunningCount(req'[r].ip) > 0 =>
                    rateLimitMap'[req'[r].ip].count = RunningCount(req'[r].ip)

\* the counts change in the steps that run a quota check and in no other
CountsChangeInChecksOnly ==
    (globalCounter' # globalCounter \/ rateLimitMap' # rateLimitMap) =>
        \E r \in Reqs : QuotaChecked(r)

\* C24: with chat requests in flight that interleave at their awaits, no state
\* has a record with count above 5 or the global count above 200; every quota
\* check is one step that resets, tests both limits and counts, so that an
\* admitted request is counted as the next of its client and of the global
\* window: no two requests are admitted as the 5th of a client or as the 200th
\* of the global window.
C24_CeilingsUnderConcurrency ==
    /\ [](\A k \in DOMAIN rateLimitMap : rateLimitMap[k].count <= 5)
    /\ [](globalCounter.count <= 200)
    /\ [][QuotaCheckIsOneStep /\ CountsChangeInChecksOnly]_vars

\* two requests are in flight, both admitted, one of them as the 5th of its client
C24_Witness ==
    /\ \A r \in Reqs : req[r].checks = 1 /\ req[r].pc \notin {"idle", "body", "done"}
    /\ \E ip \in DOMAIN rateLimitMap :
          /\ \A r \in Reqs : req[r].ip = ip
          /\ rateLimitMap[ip].count = 5
    /\ ~ret.limited

\* C25: fetchWebsiteContent returns a string whatever the upstream does: for a
\* response whose status is not 2xx one that starts with "Error: Could not
\* fetch", for a fetch or a body read that fails one that starts with "Error
\* fetching", for a page that is read its markdown cut to 30,000 characters at most.
C25_FetcherNeverRaises ==
    page.returned =>
        /\ ~page.raised
        /\ page.content # << >>
        /\ (page.upstream.kind # "reject"
              /\ (page.upstream.status < 200 \/ page.upstream.status > 299)) =>
              /\ page.content[1] = "Error:"
              /\ page.content[2] = " Could not fetch "
        /\ (\/ page.upstream.kind = "reject"
            \/ /\ page.upstream.kind = "textRejects"
               /\ page.upstream.status \in 200..299) =>
              page.content[1] = "Error fetching"
        /\ (page.upstream.kind = "response" /\ page.upstream.status \in 200..299) =>
              /\ page.content = <<"markdown">>
              /\ page.contentLength <= 30000
              /\ page.contentLength <= page.length
              /\ page.contentLength = 30000 \/ page.contentLength = page.length

\* a page of more than 30,000 characters of markdown has been returned, cut
C25_Witness ==
    /\ page.returned
    /\ page.upstream = [kind |-> "response", status |-> 200]
    /\ page.length = 30001
    /\ page.contentLength = 30000

\* the words of a page, as opposed to its markup
Words == {"u", "w", "x", "y", "z"}

\* a tag `<name ...>` of s begins at i and ends at g
IsTag(s, name, i, g) ==
    /\ i + 1 < g /\ g <= Len(s)
    /\ s[i] = "<" /\ s[i + 1] = name /\ s[g] = ">"
    /\ \A n \in (i + 2)..(g - 1) : s[n] \notin {"<", ">"}

\* the closing tag `</name>` of s begins at k
IsClosing(s, name, k) ==
    /\ k + 3 <= Len(s)
    /\ s[k] = "<" /\ s[k + 1] = "/" /\ s[k + 2] = name /\ s[k + 3] = ">"

\* place n of s lies between an opening tag of a script and its closing tag,
\* the first one after it
InScript(s, n) ==
    \E i \in 1..n, g \in 1..n, k \in n..Len(s) :
        /\ IsTag(s, "script", i, g)
        /\ g < n /\ n < k
        /\ IsClosing(s, "script", k)
        /\ \A h \in (g + 1)..(k - 1) : ~IsClosing(s, "script", h)

\* an opening tag of a script or style block of s follows another with no
\* closing tag of a block between them
NestedBlocks(s) ==
    \E i \in 1..Len(s), j \in 1..Len(s) :
        /\ i < j
        /\ s[i] = "<" /\ s[j] = "<"
        /\ i + 1 <= Len(s) /\ s[i + 1] \in {"script", "style"}
        /\ j + 1 <= Len(s) /\ s[j + 1] \in {"script", "style"}
        /\ \A h \in (i + 1)..(j - 1) :
              ~(IsClosing(s, "script", h) \/ IsClosing(s, "style", h))

Symbols(s) == {s[n] : n \in 1..Len(s)}

\* C26 as stated: for every page with no nested script or style tags,
\* converting the conversion of the page gives the conversion of the page.
C26_Idempotent ==
    (page.converted = 2 /\ ~NestedBlocks(page.html)) => page.twice = page.once

\* C26, amended: for every page with no nested script or style tags and no
\* ampersand in it, converting the conversion of the page gives the conversion of
\* the page.
C26_IdempotentWithoutEntities ==
    (page.converted = 2 /\ ~NestedBlocks(page.html) /\ "&" \notin Symbols(page.html)) =>
        page.twice = page.once

\* a page with a script block, a heading and a link, and no ampersand, has been
\* converted twice
C26_Witness ==
    /\ page.converted = 2
    /\ ~NestedBlocks(page.html)
    /\ {"script", "h1", "href="} \subseteq Symbols(page.html)
    /\ "&" \notin Symbols(page.html)
    /\ page.once = <<"#", " ", "y", "\n", "\n", "[", "w", "]", "(", "u", ")">>
    /\ page.twice = page.once

StartsAttempt(r) == req'[r].aiRuns = req[r].aiRuns + 1

\* the step is the settling of the ai.run of r
RunSettles(r) == req[r].pc = "aiRun" /\ req'[r] # req[r]

BackoffSchedule ==
    \A r \in Reqs :
        \* attempt 1 starts in the step that has the page, later ones when the
        \* timer set after the failure has run out
        /\ StartsAttempt(r) =>
              \/ /\ req[r].pc = "page"
                 /\ req'[r].attempt = 1
              \/ /\ req[r].pc = "backoff"
                 /\ req'[r].attempt = req[r].attempt + 1
                 /\ req'[r].attempt \in {2, 3}
                 /\ now >= req[r].wakeAt
        \* a failed attempt 1 or 2 sets the timer, a failed attempt 3 and a
        \* successful one answer at once
        /\ RunSettles(r) =>
              /\ req'[r].aiRuns = req[r].aiRuns
              /\ (req'[r].backend = "throw" /\ req[r].attempt \in {1, 2}) =>
                    /\ req'[r].pc = "backoff"
                    /\ req'[r].wakeAt = now + req[r].attempt * 500
                    /\ req'[r].wakeAt - now \in {500, 1000}
              /\ (req'[r].backend = "throw" /\ req[r].attempt = 3) =>
                    /\ req'[r].pc = "done"
                    /\ req'[r].resp.status = 500
                    /\ req'[r].wakeAt = req[r].wakeAt
              /\ req'[r].backend # "throw" =>
                    /\ req'[r].pc = "done"
                    /\ req'[r].resp.status = 200
                    /\ req'[r].wakeAt = req[r].wakeAt
        \* the timer is waited for after a failed attempt only
        /\ (req'[r].pc = "backoff" /\ req[r].pc # "backoff") =>
              RunSettles(r) /\ req'[r].backend = "throw"
        /\ (req[r].pc = "backoff" /\ req'[r] # req[r]) =>
              StartsAttempt(r) /\ req'[r].pc = "aiRun"

\* C31: attempt 1 of chatWithAI starts with no delay; after a failed attempt n
\* (n = 1, 2) attempt n + 1 starts once n x 500 ms have passed; after a failed
\* attempt 3 there is no delay and no attempt, after a successful attempt no delay.
C31_BackoffSchedule ==
    /\ [](\A r \in Reqs : req[r].aiRuns <= 3 /\ (req[r].pc = "backoff" => req[r].attempt \in {1, 2}))
    /\ [][BackoffSchedule]_vars

\* attempt 3 is running, 1000 ms after attempt 2 failed at 1500
C31_Witness ==
    \E r \in Reqs :
        /\ req[r].pc = "aiRun"
        /\ req[r].attempt = 3
        /\ req[r].wakeAt = 2500
        /\ now >= 2500

\* the call of chatWithUserApiKey of r has settled and r is answered
CredentialAnswered(r) ==
    /\ req[r].pc = "done"
    /\ req[r].hasValidApiKey
    /\ req[r].credRuns >= 1

\* C32: the one call of chatWithUserApiKey fails with the invalid-key error on
\* 401 and 403, with the account-rate-limit error on 429, on another status that
\* is not 2xx with a backend error that carries the first message of the body
\* or else the status, on a 2xx body with success false with the first message
\* of the body; it returns text on a 2xx body with success true and on nothing else.
C32_CredentialFailureKinds ==
    \A r \in Reqs : CredentialAnswered(r) =>
        /\ req[r].credRuns = 1
        /\ req[r].backend \in {"401", "403"} =>
              req[r].resp.error[2] = "Invalid API key. Please check your Cloudflare API token."
        /\ req[r].backend = "429" =>
              req[r].resp.error[2] = "API rate limit exceeded on your account."
        /\ req[r].backend = "500errors" =>
              req[r].resp.error[2] = "Cloudflare API error: first message"
        /\ req[r].backend = "500" =>
              req[r].resp.error[2] = "Cloudflare API error: API error: 500"
        /\ req[r].backend = "successFalseErrors" =>
              req[r].resp.error[2] = "first message"
        /\ req[r].backend \in {"text", "empty"} <=>
              (req[r].resp.response # "none" /\ req[r].resp.status = 200)
        /\ req[r].backend \notin {"text", "empty"} =>
              (req[r].resp.error[2] # "none" /\ req[r].resp.status # 200)

\* a credential call answered with status 500 and a message has failed with
\* the backend error that carries the message
C32_Witness ==
    \E r \in Reqs :
        /\ CredentialAnswered(r)
        /\ req[r].backend = "500errors"
        /\ req[r].resp.error[2] = "Cloudflare API error: first message"

\* the step answers chat request r, which carries no credential, with an error
\* of one of these types
RejectedAs(r, types) ==
    /\ req[r].pc # "done"
    /\ req'[r].pc = "done"
    /\ ~req'[r].hasValidApiKey
    /\ req'[r].resp.errorType \in types

QuotaBeforeTheRest ==
    \A r \in Reqs :
        \* the check comes before the fields are looked at and the page is fetched
        /\ QuotaChecked(r) => req[r].pageFetches = 0 /\ req[r].fields = "none"
        /\ (req'[r].pageFetches > req[r].pageFetches /\ ~req'[r].hasValidApiKey) =>
              req'[r].checks = 1
        \* a request rejected for its fields has been counted in the same step
        /\ RejectedAs(r, {"VALIDATION"}) =>
              /\ QuotaChecked(r)
              /\ ~ret'.limited
              /\ req'[r].ip \in DOMAIN rateLimitMap'
              /\ rateLimitMap'[req'[r].ip].count = RunningCount(req'[r].ip) + 1
              /\ globalCounter'.count = RunningGlobal + 1
        \* one rejected later was counted before, and the counts stay
        /\ RejectedAs(r, {"FETCH_ERROR", "AI_ERROR", "CONFIG_ERROR"}) =>
              /\ req[r].checks = 1
              /\ globalCounter' = globalCounter
              /\ rateLimitMap' = rateLimitMap

\* a count goes down only by a call that finds its window over
NoUnitGivenBack ==
    /\ globalCounter'.count < globalCounter.count => globalCounter.resetTime < now
    /\ \A ip \in DOMAIN rateLimitMap :
          (ip \notin DOMAIN rateLimitMap' \/ rateLimitMap'[ip].count < rateLimitMap[ip].count)
              => rateLimitMap[ip].resetTime < now

\* C33: for a chat request without credential the quota check runs before the
\* fields are validated and before the page is fetched: a request rejected for
\* a missing field, a fetch error or a backend failure has been counted once in
\* its client's count and in the global count, and no step takes the unit back.
C33_QuotaConsumedBeforeRejection ==
    [][QuotaBeforeTheRest /\ NoUnitGivenBack]_vars

\* a request has been rejected for its fields, and counted
C33_Witness ==
    \E r \in Reqs :
        /\ req[r].pc = "done"
        /\ req[r].resp.errorType = "VALIDATION"
        /\ ~req[r].hasValidApiKey
        /\ req[r].checks = 1
        /\ ret.who = r /\ ~ret.limited
        /\ rateLimitMap[req[r].ip].count >= 1
        /\ globalCounter.count >= 1

\* the step is a call that denies
DeniedCall == CheckCall /\ ret'.limited

\* the call leaves every record whose window is not over as it is
RunningRecordsKept ==
    \A ip \in DOMAIN rateLimitMap :
        rateLimitMap[ip].resetTime >= now =>
            /\ ip \in DOMAIN rateLimitMap'
            /\ rateLimitMap'[ip] = rateLimitMap[ip]

\* C34 as stated: a call that denies, by the global limit or by the per-IP
\* limit, leaves globalCounter.count, and the count and resetTime of every record
\* whose window is not over, as they were.
C34_DeniedCallChangesNothing ==
    [][DeniedCall =>
          /\ globalCounter'.count = globalCounter.count
          /\ RunningRecordsKept]_vars

\* C34, amended: a call that denies leaves the count and resetTime of every
\* record whose window is not over as they were, and leaves globalCounter as it
\* was unless the global window is over, in which case globalCounter is reset
\* to count 0 and resetTime now + 24h; no denied call pushes a count upward or
\* moves the resetTime of a window that is not over.
C34_DeniedCallOnlyResetsExpiredGlobal ==
    [][DeniedCall =>
          /\ globalCounter.resetTime >= now => globalCounter' = globalCounter
          /\ globalCounter.resetTime < now =>
                globalCounter' = [count |-> 0, resetTime |-> now + 24 * 60 * 60 * 1000]
          /\ globalCounter'.count <= globalCounter.count
          /\ RunningRecordsKept]_vars

\* a call denied by the per-IP limit has found the global window over and has
\* opened a new one
C34_Witness ==
    /\ ret.limited
    /\ ret.reason = NoReason
    /\ ret.prevCount = 5
    /\ globalCounter = [count |-> 0, resetTime |-> now + 24 * 60 * 60 * 1000]

\* the records of m whose window is not over at t
Live(m, t) == [k \in {x \in DOMAIN m : m[x].resetTime >= t} |-> m[k]]

\* m without the records of the IPs in S
Without(m, S) == [k \in DOMAIN m \ S |-> m[k]]

\* what the call of the step returns and leaves is what it would have
\* returned and left with the sweep taken or not, and with any of the records
\* whose window is over deleted beforehand by the sweeps of earlier calls
SameWithAnySweep ==
    CheckCall =>
        \A sweep \in BOOLEAN,
           S \in SUBSET {k \in DOMAIN rateLimitMap : rateLimitMap[k].resetTime < now} :
            \A other \in {isRateLimited(ret'.ip, globalCounter,
                                       Without(rateLimitMap, S), now, sweep)} :
                /\ other.res.limited = ret'.limited
                /\ other.res.remaining = ret'.remaining
                /\ other.res.resetIn = ret'.resetIn
                /\ other.res.reason = ret'.reason
                /\ other.g = globalCounter'
                /\ Live(other.m, now) = Live(rateLimitMap', now)

\* a record leaves the map only when its window is over
OnlyExpiredDeleted ==
    \A k \in DOMAIN rateLimitMap \ DOMAIN rateLimitMap' :
        rateLimitMap[k].resetTime < now

\* C35: the result of a call (limited, remaining, resetIn, reason) and the
\* globalCounter it leaves are the same whether the sweep runs on every call, on
\* none or on some; the sweep deletes records whose window is over and no other.
C35_SweepUnobservable ==
    [][SameWithAnySweep /\ OnlyExpiredDeleted]_vars

\* a call has swept the record of another IP
C35_Witness ==
    /\ ret.who = "direct"
    /\ ret.swept # {}
    /\ ret.ip \notin ret.swept
    /\ ~ret.limited

\* a request that has called ai.run made one rate limit check, which let it pass
ManagedAfterAllowedCheck ==
    \A r \in Reqs :
        req[r].aiRuns > 0 => req[r].checks = 1 /\ req[r].quota = "allowed"

\* a request taken to carry its own key calls no ai.run, whatever became of its
\* REST call
KeyedNeverManaged ==
    \A r \in Reqs :
        req[r].hasValidApiKey => req[r].aiRuns = 0 /\ req[r].quota = "none"

\* the check that lets a request pass counts it in the running global window,
\* which holds maxGlobal requests; a denied request is answered at once
AllowedCheckTakesGlobalUnit ==
    \A r \in Reqs :
        QuotaChecked(r) =>
            IF ret'.limited
            THEN req'[r].pc = "done" /\ req'[r].aiRuns = 0
            ELSE /\ globalCounter'.count = RunningGlobal + 1
                 /\ globalCounter'.count <= 200

\* C36: a chat request calls ai.run only after its own rate limit check let it
\* pass; a request taken to carry its own key never calls ai.run, also when its
\* REST call fails; each request let pass takes one of the 200 units of the
\* running global window, so no more than 200 of a window reach ai.run.
C36_ManagedBehindQuota ==
    /\ []ManagedAfterAllowedCheck
    /\ []KeyedNeverManaged
    /\ [][AllowedCheckTakesGlobalUnit]_vars

\* a request let pass is at its third ai.run while the REST call of a request
\* with its own key has failed and was answered
C36_Witness ==
    \E r, r2 \in Reqs :
        /\ req[r].aiRuns = 3 /\ req[r].quota = "allowed"
        /\ req[r2].hasValidApiKey /\ req[r2].credRuns = 1
        /\ req[r2].pc = "done" /\ req[r2].resp.status = 401

\* models is all the chat models of one body the backend can answer with, free
\* ones first and each group in the order of the names
IsWholeCatalog(models) ==
    /\ \E raw \in RawCatalogs :
          LET chat == {i \in 1..Len(raw) :
                          raw[i].task = "Text Generation" /\ ~raw[i].embedding}
          IN  /\ Len(models) = Cardinality(chat)
              /\ \A i \in chat : \E j \in 1..Len(models) :
                    /\ models[j].id = raw[i].name
                    /\ models[j].name = raw[i].description
                    /\ models[j].free = raw[i].beta
    /\ \A i, j \in 1..Len(models) : i < j =>
          /\ models[j].free => models[i].free
          /\ models[i].free = models[j].free =>
                localeCompare(models[i].name, models[j].name) <= 0

\* a step in which the catalog fetch of r settles
CatalogSettles(r) == inv[r].pc = "modelsFetch" /\ inv'[r].pc = "done"

\* modelsCache is null or holds a whole catalog and the time it was stored
CacheEmptyOrWhole ==
    IF modelsCache.filled
    THEN /\ IsWholeCatalog(modelsCache.models)
         /\ modelsCache.models # FallbackModels
         /\ modelsCache.timestamp <= now
    ELSE modelsCache = NoCache

\* a fetch that succeeds stores the list it returns with the time of that step,
\* a fetch that fails returns the fallback list and stores nothing, no other
\* step touches the cache, and the timestamp does not go back
CacheWrittenBySuccessOnly ==
    /\ \A r \in Reqs : CatalogSettles(r) =>
          IF inv'[r].outcome \in {"throw", "status", "badJson", "badShape"}
          THEN /\ modelsCache' = modelsCache
               /\ inv'[r].resp.models = FallbackModels
          ELSE /\ modelsCache'.filled
               /\ modelsCache'.models = inv'[r].resp.models
               /\ modelsCache'.timestamp = now
    /\ modelsCache' # modelsCache => \E r \in Reqs : CatalogSettles(r)
    /\ modelsCache'.timestamp >= modelsCache.timestamp

\* C37: under every interleaving of calls of the models route, modelsCache is
\* null or holds the whole filtered and sorted list of one fetch that succeeded
\* with the time that fetch was completed; the fallback list is returned and
\* never stored, a failed fetch leaves modelsCache as it was, and the timestamp
\* never decreases.
C37_CacheContent ==
    /\ []CacheEmptyOrWhole
    /\ [][CacheWrittenBySuccessOnly]_vars

\* the fetch of one call failed and was answered with the fallback list while
\* the cache, filled by an earlier fetch, was stale and another call waits
C37_Witness ==
    \E r, r2 \in Reqs :
        /\ inv[r].pc = "done" /\ inv[r].outcome = "status"
        /\ inv[r].resp.models = FallbackModels
        /\ inv[r2].pc = "modelsFetch"
        /\ modelsCache.filled /\ Len(modelsCache.models) = 3
        /\ modelsCache.timestamp > 0
        /\ now - modelsCache.timestamp >= 5 * 60 * 1000

\* C38: a chat request is answered FETCH_ERROR exactly when the fetch of its
\* page failed (status not ok, or fetch rejected); a page that was fetched is
\* handed to a chat function whatever its markdown starts with (or, with no key
\* and no binding, answered CONFIG_ERROR).
C38_FetchErrorExact ==
    \A r \in Reqs :
        (req[r].pc = "done" /\ req[r].page # "none") =>
            /\ req[r].resp.errorType = "FETCH_ERROR" <=> req[r].page \in {"status", "throw"}
            /\ req[r].page \in {"ok", "okErrorText"} =>
                  \/ req[r].prompt # << >> /\ req[r].aiRuns + req[r].credRuns > 0
                  \/ req[r].resp.errorType = "CONFIG_ERROR"

\* C10: the errorType of a failed chat tells the cause: VALIDATION for a missing
\* url/message, FETCH_ERROR for a failed page fetch, API_KEY_ERROR only for a
\* rejected credential (401/403), RATE_LIMIT for a 429 of the credential call,
\* AI_ERROR for any other failure of the model call on either path.
C10_ErrorTypeTellsCause ==
    \A r \in Reqs :
        (req[r].pc = "done" /\ req[r].resp.status # 200) =>
            /\ req[r].fields = "missing" => req[r].resp.errorType = "VALIDATION"
            /\ req[r].page \in {"status", "throw"} => req[r].resp.errorType = "FETCH_ERROR"
            /\ req[r].resp.errorType = "API_KEY_ERROR" => req[r].backend \in {"401", "403"}
            /\ (req[r].hasValidApiKey /\ req[r].backend = "429") =>
                  req[r].resp.errorType = "RATE_LIMIT"
            /\ req[r].backend \in {"throw", "500", "badJson", "successFalse"} =>
                  req[r].resp.errorType = "AI_ERROR"

====
